---- MODULE Spec2Model ----
(***************************************************************************)
(* Model of the tutor command centre: the function-calling loop of         *)
(* app/agent.py (run_agent_flow, execute_function_call) over the six tools *)
(* of app/tools.py and their JSON files.                                   *)
(*                                                                         *)
(* Python values are tagged records (Str, Num, NoneV, Repeated, List), so  *)
(* that a missing argument, a number and a string stay distinguishable.    *)
(* Vietnamese message literals are written without diacritics.             *)
(***************************************************************************)
EXTENDS Integers, Sequences, FiniteSets, TLC

VARIABLES
    pc,                 \* position of run_agent_flow
    turn_count,         \* agent.py:249
    response,           \* the latest reply of chat.send_message
    logs,               \* agent.py:247, the trace
    function_calls,     \* agent.py:284
    text_parts,         \* agent.py:285
    idx,                \* the loop index i of agent.py:299 (1-based here)
    function_responses, \* agent.py:297
    result,             \* the returned dictionary
    files,              \* the JSON files under data/
    clock,              \* datetime.now(), in seconds
    start_time,         \* agent.py:248
    sent,               \* history: every message handed to chat.send_message
    executed,           \* history: every call handed to execute_function_call
    received,           \* history: number of replies chat.send_message returned
    failure,            \* history: description of the exception caught, if any
    special,            \* segments drawn so far in replies that are not plain
    body,               \* main.py:56-79, the body the HTTP handler answers with
    inflight            \* tool calls of invocations that run side by side

vars == <<pc, turn_count, response, logs, function_calls, text_parts, idx,
          function_responses, result, files, clock, start_time, sent,
          executed, received, failure, special, body, inflight>>

(***************************************************************************)
(* Bounds of the model and program constants.                              *)
(***************************************************************************)
MaxExtra == 2       \* segments, over one invocation, of the replies that are not plain
max_turns == 10     \* agent.py:276
PreviewLen == 100   \* agent.py:326
NotePreviewLen == 50 \* tools.py:290, tools.py:364
ContentPreviewLen == 100 \* tools.py:117

(***************************************************************************)
(* Python values.                                                          *)
(***************************************************************************)
NoneV == [type |-> "none"]
Str(s) == [type |-> "str", val |-> s]
Num(n) == [type |-> "num", val |-> n]
Repeated(q) == [type |-> "repeated", val |-> q]
List(q) == [type |-> "list", val |-> q]
\* an object that has __iter__ and raises when it is iterated
Unlistable == [type |-> "unlistable"]

EmptyArgs == [k \in {} |-> NoneV]

\* dict.get(key, default)
Get(args, key, default) == IF key \in DOMAIN args THEN args[key] ELSE default

\* str(v) / f"{v}"
RECURSIVE JoinWith(_, _)
JoinWith(sep, q) ==
    IF q = <<>> THEN ""
    ELSE IF Len(q) = 1 THEN q[1]
    ELSE q[1] \o sep \o JoinWith(sep, Tail(q))

Format(v) ==
    CASE v.type = "str" -> v.val
      [] v.type = "num" -> ToString(v.val)
      [] v.type = "none" -> "None"
      [] OTHER -> "[" \o JoinWith(", ", [i \in 1..Len(v.val) |-> v.val[i].val]) \o "]"

LowerChar(c) ==
    CASE c = "A" -> "a" [] c = "B" -> "b" [] c = "C" -> "c" [] c = "D" -> "d"
      [] c = "E" -> "e" [] c = "F" -> "f" [] c = "G" -> "g" [] c = "H" -> "h"
      [] c = "I" -> "i" [] c = "J" -> "j" [] c = "K" -> "k" [] c = "L" -> "l"
      [] c = "M" -> "m" [] c = "N" -> "n" [] c = "O" -> "o" [] c = "P" -> "p"
      [] c = "Q" -> "q" [] c = "R" -> "r" [] c = "S" -> "s" [] c = "T" -> "t"
      [] c = "U" -> "u" [] c = "V" -> "v" [] c = "W" -> "w" [] c = "X" -> "x"
      [] c = "Y" -> "y" [] c = "Z" -> "z" [] OTHER -> c

\* str.lower(), character by character from position i on
RECURSIVE LowerFrom(_, _)
LowerFrom(s, i) ==
    IF i > Len(s) THEN ""
    ELSE LowerChar(SubSeq(s, i, i)) \o LowerFrom(s, i + 1)

\* str.lower()
Lower(s) == LowerFrom(s, 1)

\* needle in hay
Contains(needle, hay) ==
    \/ Len(needle) = 0
    \/ \E i \in 1..(Len(hay) - Len(needle) + 1) :
           SubSeq(hay, i, i + Len(needle) - 1) = needle

\* mutant: a long string is cut without the marker
PreviewNoMarker(s, n) == IF Len(s) > n THEN SubSeq(s, 1, n) ELSE s

\* s[:n] + "..." if len(s) > n else s
Preview(s, n) == IF Len(s) > n THEN SubSeq(s, 1, n) \o "..." ELSE s

\* the characters of a string, as iterating over it yields them
Chars(s) == [i \in 1..Len(s) |-> SubSeq(s, i, i)]

\* a for loop that breaks at the first matching element: given the indices of
\* the matching elements, the smallest of them, or 0 when nothing matches
FirstIndex(hits) ==
    IF hits = {} THEN 0 ELSE CHOOSE i \in hits : \A j \in hits : i <= j

\* the outcome of a tool: a returned string or a raised exception, and the files
Returned(s, f) == [raised |-> FALSE, value |-> s, files |-> f]
Raised(e, f) == [raised |-> TRUE, value |-> e, files |-> f]

NoLower(v) ==
    IF v.type = "none" THEN "'NoneType' object has no attribute 'lower'"
    ELSE IF v.type = "num" THEN "'int' object has no attribute 'lower'"
    ELSE "'list' object has no attribute 'lower'"

NoLen(v) ==
    IF v.type = "none" THEN "object of type 'NoneType' has no len()"
    ELSE "object of type 'int' has no len()"

(***************************************************************************)
(* The JSON files of app/tools.py.  Each is the list json.load returns.    *)
(***************************************************************************)
InitFiles ==
    [students |-> <<[id |-> "s1", name |-> "An"]>>,
     learning_objects |-> <<[id |-> "lo1", title |-> "Tu giac"]>>,
     assignments |-> <<>>,
     submissions |-> <<[id |-> "sub_001", student_id |-> "s1", student_name |-> "An",
                        status |-> "submitted", submitted_date |-> "d0",
                        content |-> "bai lam"]>>,
     reports |-> <<>>,
     pathways |-> <<>>,
     activity_logs |-> <<>>]

\* strftime('%Y%m%d_%H%M%S') and isoformat() of the clock, one value per second
TimeStamp(now) == "t" \o ToString(now)

\* mutant: the new entry is put in front of the entries read
_log_activityNewestFirst(f, now, student_id, activity, details) ==
    [f EXCEPT !.activity_logs =
        <<[timestamp |-> TimeStamp(now), student_id |-> student_id,
           activity |-> activity, details |-> details]>> \o @]

_log_activity(f, now, student_id, activity, details) ==
    [f EXCEPT !.activity_logs =
        Append(@, [timestamp |-> TimeStamp(now), student_id |-> student_id,
                   activity |-> activity, details |-> details])]

\* the loop "for s in students: if s['name'].lower() == student_name.lower()"
StudentLookupRaises(f, student_name) ==
    f.students # <<>> /\ student_name.type # "str"

\* mutant: a name that matches no student falls back to the first student
StudentIndexOrFirst(f, student_name) ==
    IF \E i \in 1..Len(f.students) : Lower(f.students[i].name) = Lower(student_name.val)
    THEN CHOOSE i \in 1..Len(f.students) :
             Lower(f.students[i].name) = Lower(student_name.val)
    ELSE IF f.students = <<>> THEN 0 ELSE 1

StudentIndex(f, student_name) ==
    FirstIndex({i \in 1..Len(f.students) :
                    Lower(f.students[i].name) = Lower(student_name.val)})

StudentNotFound(student_name) ==
    "Khong tim thay hoc sinh co ten '" \o Format(student_name) \o "'"

\* title.lower() in lo["title"].lower() or lo["title"].lower() in title.lower()
LoMatches(title, lo) ==
    \/ Contains(Lower(title), Lower(lo.title))
    \/ Contains(Lower(lo.title), Lower(title))

LoIndex(f, title) ==
    FirstIndex({i \in 1..Len(f.learning_objects) : LoMatches(title, f.learning_objects[i])})

\* one element of "submissions" as json.dumps(..., indent=2) writes it
AvailableSubmission(sub) ==
    "    {\n      \"id\": \"" \o sub.id
        \o "\",\n      \"student_name\": \"" \o sub.student_name
        \o "\",\n      \"submitted_date\": \"" \o sub.submitted_date
        \o "\",\n      \"content_preview\": \""
        \o Preview(sub.content, ContentPreviewLen) \o "\"\n    }"

\* mutant: every submission is listed, whatever its status
list_available_submissionsAll(f) ==
    LET available == f.submissions
    IN  IF f.submissions = <<>>
        THEN Returned("Hien tai khong co bai nop nao de cham.", f)
        ELSE IF available = <<>>
        THEN Returned("Tat ca bai nop da duoc cham diem.", f)
        ELSE Returned("{\n  \"message\": \"Tim thay " \o ToString(Len(available))
                      \o " bai nop chua cham:\",\n  \"submissions\": [\n"
                      \o JoinWith(",\n", [i \in 1..Len(available) |->
                                              AvailableSubmission(available[i])])
                      \o "\n  ]\n}", f)

list_available_submissions(f) ==
    LET available == SelectSeq(f.submissions, LAMBDA sub : sub.status = "submitted")
    IN  IF f.submissions = <<>>
        THEN Returned("Hien tai khong co bai nop nao de cham.", f)
        ELSE IF available = <<>>
        THEN Returned("Tat ca bai nop da duoc cham diem.", f)
        ELSE Returned("{\n  \"message\": \"Tim thay " \o ToString(Len(available))
                      \o " bai nop chua cham:\",\n  \"submissions\": [\n"
                      \o JoinWith(",\n", [i \in 1..Len(available) |->
                                              AvailableSubmission(available[i])])
                      \o "\n  ]\n}", f)

assign_exercise(f, now, student_name, learning_object_title, num_questions) ==
    IF StudentLookupRaises(f, student_name) THEN Raised(NoLower(student_name), f)
    ELSE IF f.students = <<>> \/ StudentIndex(f, student_name) = 0
    THEN Returned(StudentNotFound(student_name), f)
    ELSE IF f.learning_objects # <<>> /\ learning_object_title.type # "str"
    THEN Raised(NoLower(learning_object_title), f)
    ELSE IF f.learning_objects = <<>> \/ LoIndex(f, learning_object_title.val) = 0
    THEN Returned("Khong tim thay chu de hoc tap '"
                  \o Format(learning_object_title) \o "'", f)
    ELSE
    LET student == f.students[StudentIndex(f, student_name)]
        learning_object == f.learning_objects[LoIndex(f, learning_object_title.val)]
        assignment == [id |-> "assignment_" \o TimeStamp(now),
                       student_id |-> student.id,
                       student_name |-> student.name,
                       learning_object_id |-> learning_object.id,
                       learning_object_title |-> learning_object.title,
                       num_questions |-> num_questions,
                       assigned_date |-> TimeStamp(now),
                       status |-> "assigned"]
        saved == [f EXCEPT !.assignments = Append(@, assignment)]
        logged == _log_activity(saved, now, student.id, "assignment_created",
                      [learning_object |-> learning_object.title,
                       num_questions |-> num_questions,
                       assignment_id |-> assignment.id])
    IN  Returned("Da giao thanh cong " \o Format(num_questions) \o " bai tap ve '"
                 \o learning_object.title \o "' cho hoc sinh " \o student.name, logged)

\* mutant: a look at the log is itself recorded in the log
get_student_activity_logRecordsView(f, student_name, date_range) ==
    IF StudentLookupRaises(f, student_name) THEN Raised(NoLower(student_name), f)
    ELSE IF f.students = <<>> \/ StudentIndex(f, student_name) = 0
    THEN Returned(StudentNotFound(student_name), f)
    ELSE
    LET student == f.students[StudentIndex(f, student_name)]
        student_logs == SelectSeq(f.activity_logs,
                                  LAMBDA log : log.student_id = student.id)
        viewed == _log_activity(f, 0, student.id, "activity_log_viewed",
                                [date_range |-> date_range])
    IN  IF student_logs = <<>>
        THEN Returned("Khong co hoat dong nao duoc ghi nhan cho hoc sinh "
                      \o student.name, viewed)
        ELSE Returned("{student_name: " \o student.name \o ", total_activities: "
                      \o ToString(Len(student_logs)) \o ", activities: ["
                      \o JoinWith(", ", [i \in 1..Len(student_logs) |->
                                            student_logs[i].activity]) \o "]}", viewed)

get_student_activity_log(f, student_name, date_range) ==
    IF StudentLookupRaises(f, student_name) THEN Raised(NoLower(student_name), f)
    ELSE IF f.students = <<>> \/ StudentIndex(f, student_name) = 0
    THEN Returned(StudentNotFound(student_name), f)
    ELSE
    LET student == f.students[StudentIndex(f, student_name)]
        student_logs == SelectSeq(f.activity_logs,
                                  LAMBDA log : log.student_id = student.id)
    IN  IF student_logs = <<>>
        THEN Returned("Khong co hoat dong nao duoc ghi nhan cho hoc sinh "
                      \o student.name, f)
        ELSE Returned("{student_name: " \o student.name \o ", total_activities: "
                      \o ToString(Len(student_logs)) \o ", activities: ["
                      \o JoinWith(", ", [i \in 1..Len(student_logs) |->
                                            student_logs[i].activity]) \o "]}", f)

\* mutant: the score is not validated
grade_submissionUnvalidated(f, now, submission_id, score, feedback_text) ==
    LET submission_index ==
            FirstIndex({i \in 1..Len(f.submissions) :
                            /\ submission_id.type = "str"
                            /\ submission_id.val = f.submissions[i].id})
    IN
    IF submission_index = 0
    THEN Returned("Khong tim thay bai nop co ID '" \o Format(submission_id) \o "'", f)
    ELSE IF score.type # "num"
    THEN Raised("'<=' not supported between instances of 'int' and '"
                \o (IF score.type = "none" THEN "NoneType" ELSE score.type) \o "'", f)
    ELSE
    LET submission == f.submissions[submission_index]
        graded == [score |-> score, feedback |-> feedback_text,
                   status |-> "graded", graded_date |-> TimeStamp(now)] @@ submission
        saved == [f EXCEPT !.submissions[submission_index] = graded]
    IN  IF feedback_text.type # "str" THEN Raised(NoLen(feedback_text), saved)
        ELSE Returned("Da cham diem thanh cong bai nop cua " \o submission.student_name
                      \o ": " \o Format(score) \o "/100 diem",
                      _log_activity(saved, now, submission.student_id,
                          "submission_graded",
                          [submission_id |-> submission_id.val, score |-> score,
                           feedback_preview |->
                               Preview(feedback_text.val, NotePreviewLen)]))

grade_submission(f, now, submission_id, score, feedback_text) ==
    LET submission_index ==
            FirstIndex({i \in 1..Len(f.submissions) :
                            /\ submission_id.type = "str"
                            /\ submission_id.val = f.submissions[i].id})
    IN
    IF submission_index = 0
    THEN Returned("Khong tim thay bai nop co ID '" \o Format(submission_id) \o "'", f)
    ELSE IF score.type # "num"
    THEN Raised("'<=' not supported between instances of 'int' and '"
                \o (IF score.type = "none" THEN "NoneType" ELSE score.type) \o "'", f)
    ELSE IF ~(0 <= score.val /\ score.val <= 100)
    THEN Returned("Diem so phai nam trong khoang 0-100", f)
    ELSE
    LET submission == f.submissions[submission_index]
        graded == [score |-> score, feedback |-> feedback_text,
                   status |-> "graded", graded_date |-> TimeStamp(now)] @@ submission
        saved == [f EXCEPT !.submissions[submission_index] = graded]
    IN  IF feedback_text.type # "str" THEN Raised(NoLen(feedback_text), saved)
        ELSE Returned("Da cham diem thanh cong bai nop cua " \o submission.student_name
                      \o ": " \o Format(score) \o "/100 diem",
                      _log_activity(saved, now, submission.student_id,
                          "submission_graded",
                          [submission_id |-> submission_id.val, score |-> score,
                           feedback_preview |->
                               Preview(feedback_text.val, NotePreviewLen)]))

add_note_to_report(f, now, student_name, note_text) ==
    IF StudentLookupRaises(f, student_name) THEN Raised(NoLower(student_name), f)
    ELSE IF f.students = <<>> \/ StudentIndex(f, student_name) = 0
    THEN Returned(StudentNotFound(student_name), f)
    ELSE
    LET student == f.students[StudentIndex(f, student_name)]
        found == FirstIndex({i \in 1..Len(f.reports) :
                                 f.reports[i].student_id = student.id})
        reports == IF found # 0 THEN f.reports
                   ELSE Append(f.reports,
                               [student_id |-> student.id, student_name |-> student.name,
                                overall_progress |-> 0, strengths |-> <<>>,
                                weaknesses |-> <<>>, tutor_notes |-> <<>>])
        report_index == IF found # 0 THEN found ELSE Len(reports)
        note_entry == [timestamp |-> TimeStamp(now), note |-> note_text,
                       tutor |-> "Admin"]
        noted == [reports EXCEPT ![report_index].tutor_notes = Append(@, note_entry)]
        saved == [f EXCEPT !.reports = noted]
        total == Len(noted[report_index].tutor_notes)
    IN  IF note_text.type # "str" THEN Raised(NoLen(note_text), saved)
        ELSE Returned("Da them ghi chu vao bao cao cua " \o student.name
                      \o ". Tong so ghi chu: " \o ToString(total),
                      _log_activity(saved, now, student.id, "note_added_to_report",
                          [note_preview |-> Preview(note_text.val, NotePreviewLen),
                           total_notes |-> total]))

\* "for title in learning_object_titles": the titles the loop iterates over
TitlesOf(v) ==
    CASE v.type = "list" -> v.val
      [] v.type = "repeated" -> v.val
      [] v.type = "str" -> [i \in 1..Len(v.val) |-> Str(Chars(v.val)[i])]
      [] OTHER -> <<>>

\* matched_los of tools.py:400-412: the first match of every title, no duplicates
RECURSIVE MatchedLos(_, _, _)
MatchedLos(f, titles, acc) ==
    IF titles = <<>> THEN acc
    ELSE LET k == LoIndex(f, Head(titles).val)
         IN  MatchedLos(f, Tail(titles),
                 IF k = 0 \/ \E j \in 1..Len(acc) : acc[j] = f.learning_objects[k]
                 THEN acc ELSE Append(acc, f.learning_objects[k]))

create_custom_pathway(f, now, student_name, learning_object_titles) ==
    IF StudentLookupRaises(f, student_name) THEN Raised(NoLower(student_name), f)
    ELSE IF f.students = <<>> \/ StudentIndex(f, student_name) = 0
    THEN Returned(StudentNotFound(student_name), f)
    ELSE IF learning_object_titles.type \in {"none", "num", "unlistable"}
    THEN Raised(IF learning_object_titles.type = "none"
                THEN "'NoneType' object is not iterable"
                ELSE IF learning_object_titles.type = "num"
                THEN "'int' object is not iterable"
                ELSE "iteration failed", f)
    ELSE
    LET student == f.students[StudentIndex(f, student_name)]
        titles == TitlesOf(learning_object_titles)
        names == [i \in 1..Len(titles) |-> Format(titles[i])]
        bad == \E i \in 1..Len(titles) : titles[i].type # "str"
    IN
    IF f.learning_objects # <<>> /\ bad
    THEN Raised(NoLower((CHOOSE t \in {titles[i] : i \in 1..Len(titles)} :
                             t.type # "str")), f)
    ELSE
    LET matched_los == MatchedLos(f, titles, <<>>)
        not_found == SelectSeq(titles, LAMBDA t : LoIndex(f, t.val) = 0)
        pathway == [id |-> "pathway_" \o TimeStamp(now),
                    student_id |-> student.id,
                    student_name |-> student.name,
                    title |-> "Lo trinh tuy chinh cho " \o student.name,
                    learning_objects |-> matched_los,
                    created_date |-> TimeStamp(now),
                    status |-> "active",
                    completion_progress |-> 0]
        saved == [f EXCEPT !.pathways = Append(@, pathway)]
        logged == _log_activity(saved, now, student.id, "custom_pathway_created",
                      [pathway_id |-> pathway.id,
                       total_learning_objects |-> Len(matched_los),
                       learning_objects |->
                           [i \in 1..Len(matched_los) |-> matched_los[i].title]])
        result_msg == "Da tao lo trinh tuy chinh cho " \o student.name \o " voi "
                      \o ToString(Len(matched_los)) \o " chu de hoc tap"
    IN  IF matched_los = <<>>
        THEN Returned("Khong tim thay chu de hoc tap nao phu hop trong danh sach: "
                      \o JoinWith(", ", names), f)
        ELSE IF not_found # <<>>
        THEN Returned(result_msg \o "\nLuu y: Khong tim thay cac chu de: "
                      \o JoinWith(", ", [i \in 1..Len(not_found) |->
                                            Format(not_found[i])]), logged)
        ELSE Returned(result_msg, logged)

(***************************************************************************)
(* agent.py:202-234.                                                       *)
(***************************************************************************)
RegisteredTools ==
    {"assign_exercise", "get_student_activity_log", "grade_submission",
     "add_note_to_report", "create_custom_pathway", "list_available_submissions"}

UnknownFunction(function_name) == "Unknown function: " \o function_name

\* the six branches of agent.py:204-232
DispatchRegistered(f, now, function_name, args) ==
    CASE function_name = "assign_exercise" ->
            assign_exercise(f, now, Get(args, "student_name", NoneV),
                            Get(args, "learning_object_title", NoneV),
                            Get(args, "num_questions", NoneV))
      [] function_name = "get_student_activity_log" ->
            get_student_activity_log(f, Get(args, "student_name", NoneV),
                                     Get(args, "date_range", Str("today")))
      [] function_name = "grade_submission" ->
            grade_submission(f, now, Get(args, "submission_id", NoneV),
                             Get(args, "score", NoneV),
                             Get(args, "feedback_text", NoneV))
      [] function_name = "add_note_to_report" ->
            add_note_to_report(f, now, Get(args, "student_name", NoneV),
                               Get(args, "note_text", NoneV))
      [] function_name = "create_custom_pathway" ->
            create_custom_pathway(f, now, Get(args, "student_name", NoneV),
                                  Get(args, "learning_object_titles", List(<<>>)))
      [] function_name = "list_available_submissions" ->
            list_available_submissions(f)

\* mutant: an unregistered name raises instead of returning a string
ExecuteUnknownRaises(f, now, function_name, args) ==
    IF function_name \in RegisteredTools
    THEN DispatchRegistered(f, now, function_name, args)
    ELSE Raised(UnknownFunction(function_name), f)

\* mutant: a tool's not-found or out-of-range answer is raised as an exception
ExecuteRaisesDomainErrors(f, now, function_name, args) ==
    IF function_name \notin RegisteredTools
    THEN Returned(UnknownFunction(function_name), f)
    ELSE LET outcome == DispatchRegistered(f, now, function_name, args)
         IN  IF /\ ~outcome.raised /\ Len(outcome.value) >= 14
                /\ SubSeq(outcome.value, 1, 14) \in {"Khong tim thay", "Diem so phai n"}
             THEN Raised(outcome.value, f)
             ELSE outcome

execute_function_call(f, now, function_name, args) ==
    IF function_name \in RegisteredTools
    THEN DispatchRegistered(f, now, function_name, args)
    ELSE Returned(UnknownFunction(function_name), f)

(***************************************************************************)
(* Model turns: what chat.send_message returns.                            *)
(***************************************************************************)
\* an unset function_call field is the empty message, which is falsy
NoCall == [name |-> "", args |-> EmptyArgs]

TextPart(s) == [function_call |-> NoCall, text |-> s]
CallPart(n, a) == [function_call |-> [name |-> n, args |-> a], text |-> ""]

\* agent.py:288 and agent.py:290
IsFunctionCall(part) == part.function_call # NoCall
IsText(part) == ~IsFunctionCall(part) /\ part.text # ""
\* mutant: the step after the loop finds no text in any part
HasTextNowhere(part) == FALSE

\* agent.py:367
HasText(part) == part.text # ""

ListCall == CallPart("list_available_submissions", EmptyArgs)
UnknownCall == CallPart("send_email", "student_name" :> Str("An"))
RaisingCall == CallPart("assign_exercise", EmptyArgs)

\* calls that run into a domain error of tools.py: no such student (151), no
\* such topic (164), no such submission (265), score out of range (269)
Args3(k1, v1, k2, v2, k3, v3) == (k1 :> v1) @@ (k2 :> v2) @@ (k3 :> v3)
NoStudentCall ==
    CallPart("assign_exercise",
             Args3("student_name", Str("Binh"), "learning_object_title", Str("Tu giac"),
                   "num_questions", Num(5)))
NoTopicCall ==
    CallPart("assign_exercise",
             Args3("student_name", Str("An"), "learning_object_title", Str("Elip"),
                   "num_questions", Num(5)))
NoSubmissionCall ==
    CallPart("grade_submission",
             Args3("submission_id", Str("sub_999"), "score", Num(80),
                   "feedback_text", Str("tot")))
BadScoreCall ==
    CallPart("grade_submission",
             Args3("submission_id", Str("sub_001"), "score", Num(150),
                   "feedback_text", Str("tot")))
DomainErrorCalls == {NoStudentCall, NoTopicCall, NoSubmissionCall, BadScoreCall}

Segments == {TextPart("Xong."), TextPart(""), ListCall, UnknownCall, RaisingCall}

\* the turns drawn: every sequence of segments up to the bound, and the turns
\* that ask for a call with a domain error, alone or before another call
DomainErrorTurns ==
    {<<c>> : c \in DomainErrorCalls} \cup {<<c, ListCall>> : c \in DomainErrorCalls}
\* turns with two different texts, around an empty text and around a call
OrderedTextTurns ==
    {<<TextPart("Mot."), TextPart(""), TextPart("Hai.")>>,
     <<TextPart("Mot."), ListCall, TextPart("Hai.")>>}
\* calls with an array of strings, an array of numbers, and a value that
\* cannot be converted to a list
PathwayCall ==
    CallPart("create_custom_pathway",
             ("student_name" :> Str("An"))
                 @@ ("learning_object_titles" :> Repeated(<<Str("Tu giac")>>)))
NumbersCall ==
    CallPart("create_custom_pathway",
             ("student_name" :> Str("An"))
                 @@ ("learning_object_titles" :> Repeated(<<Num(1), Num(2)>>)))
UnlistableCall ==
    CallPart("get_student_activity_log",
             ("student_name" :> Str("An")) @@ ("date_range" :> Unlistable))
ArgumentTurns ==
    {<<PathwayCall>>, <<NumbersCall>>, <<UnlistableCall>>, <<UnlistableCall, ListCall>>,
     <<PathwayCall, RaisingCall>>}
SpecialTurns == DomainErrorTurns \cup OrderedTextTurns \cup ArgumentTurns
AllTurns == UNION {[1..n -> Segments] : n \in 0..MaxExtra} \cup SpecialTurns

\* response.candidates[0].content.parts
PartsOf(r) == r.candidates[1].parts

Reply(turn) == [candidates |-> <<[parts |-> turn]>>]
Malformed == [candidates |-> <<>>]
Replies == {Reply(t) : t \in AllTurns} \cup {Malformed}

PlainReplies == {Reply(<<ListCall>>), Reply(<<TextPart("Xong.")>>), Malformed}

\* the model may answer anything; the model bounds the segments it spends on
\* replies other than the plain ones, and draws at most one of the special
\* turns, next to plain replies only
Cost(r) ==
    IF r \in PlainReplies THEN 0
    ELSE IF PartsOf(r) \in SpecialTurns THEN MaxExtra
    ELSE Len(PartsOf(r))
MayReply(r) == special + Cost(r) <= MaxExtra
Drawn(r) == special + Cost(r)

Prompt == "giao bai cho An"
TransportError == "503 service unavailable"
ConfigError == "API key not valid"
IndexError == "list index out of range"

(***************************************************************************)
(* agent.py:251-261.                                                       *)
(***************************************************************************)
NoDetails == [k \in {} |-> NoneV]

\* mutant: the newest entry is put first
add_logNewestFirst(l, now, step, status, message, details) ==
    <<[timestamp |-> TimeStamp(now), step |-> step, status |-> status,
       message |-> message, details |-> details]>> \o l

add_log(l, now, step, status, message, details) ==
    Append(l, [timestamp |-> TimeStamp(now), step |-> step, status |-> status,
               message |-> message, details |-> details])

\* mutant: only the first text part is returned
JoinTextFirst(parts) == parts[1].text

\* mutant: the texts are joined without a separator
JoinTextNoSpace(parts) == JoinWith("", [i \in 1..Len(parts) |-> parts[i].text])

\* " ".join(parts)
JoinText(parts) == JoinWith(" ", [i \in 1..Len(parts) |-> parts[i].text])

\* agent.py:306: hasattr(value, '__iter__') and not isinstance(value, (str, bytes))
HasIter(v) == v.type \in {"repeated", "list", "unlistable"}

\* mutant: a value that cannot be converted is replaced by the empty list
NormalizeOrEmpty(args) ==
    [k \in DOMAIN args |->
        IF HasIter(args[k])
        THEN IF args[k].type = "unlistable" THEN List(<<>>) ELSE List(args[k].val)
        ELSE args[k]]

\* agent.py:303-315: list(value) for an iterable that is no string, and the
\* value itself when list(value) raises
Normalize(args) ==
    [k \in DOMAIN args |->
        IF HasIter(args[k])
        THEN IF args[k].type = "unlistable" THEN args[k] ELSE List(args[k].val)
        ELSE args[k]]

(***************************************************************************)
(* run_agent_flow, agent.py:237-408.                                       *)
(***************************************************************************)
NoResult == [status |-> "pending"]
NoBody == [status |-> "no response"]
NoInflight == <<>>
NoFailure == ""

Init ==
    /\ pc = "start"
    /\ turn_count = 0
    /\ response = Malformed
    /\ logs = <<>>
    /\ function_calls = <<>>
    /\ text_parts = <<>>
    /\ idx = 0
    /\ function_responses = <<>>
    /\ result = NoResult
    /\ files = InitFiles
    /\ clock = 0
    /\ start_time = 0
    /\ sent = <<>>
    /\ executed = <<>>
    /\ received = 0
    /\ failure = NoFailure
    /\ special = 0
    /\ body = NoBody
    /\ inflight = NoInflight

\* the dictionary every return statement builds
Result(text, l, now, status) ==
    [response |-> text, logs |-> l, processing_time |-> now - start_time,
     turns_processed |-> turn_count, status |-> status]

\* mutant: the handler answers with the fixed message, without the description
OnExceptionGeneric(e, l, now) ==
    LET l2 == add_log(l, now, "error", "error", "Loi he thong: " \o e, NoDetails)
    IN  /\ logs' = l2
        /\ result' = Result("Xin loi, toi khong the xu ly yeu cau cua ban.",
                            l2, now, "error")
        /\ failure' = e
        /\ pc' = "done"

\* mutant: the failure is recorded where it is raised and again by the handler
OnExceptionLogsTwice(e, l, now) ==
    LET l1 == add_log(l, now, "error", "error", "Loi: " \o e, NoDetails)
        l2 == add_log(l1, now, "error", "error", "Loi he thong: " \o e, NoDetails)
    IN  /\ logs' = l2
        /\ result' = Result("Da xay ra loi: " \o e, l2, now, "error")
        /\ failure' = e
        /\ pc' = "done"

\* agent.py:397-408: the handler of the outer try, entered with the trace l
OnException(e, l, now) ==
    LET l2 == add_log(l, now, "error", "error", "Loi he thong: " \o e, NoDetails)
    IN  /\ logs' = l2
        /\ result' = Result("Da xay ra loi: " \o e, l2, now, "error")
        /\ failure' = e
        /\ pc' = "done"

\* mutant: text found after the loop is returned with a status of its own
ReturnSuccessPartial(text, l, now, turns, message) ==
    LET l2 == add_log(l, now, "completion", "success", message, NoDetails)
    IN  /\ logs' = l2
        /\ result' = [Result(text, l2, now,
                              IF turns = max_turns THEN "partial" ELSE "success")
                          EXCEPT !.turns_processed = turns]
        /\ pc' = "done"

\* agent.py:344-357
ReturnSuccess(text, l, now, turns, message) ==
    LET l2 == add_log(l, now, "completion", "success", message, NoDetails)
    IN  /\ logs' = l2
        /\ result' = [Result(text, l2, now, "success") EXCEPT !.turns_processed = turns]
        /\ pc' = "done"

\* mutant: the texts found, none, are joined and returned as a success
ReturnFallbackAsSuccess(l, now) ==
    LET l2 == add_log(l, now, "completion", "success",
                      "Trich xuat duoc phan hoi cuoi cung", NoDetails)
    IN  /\ logs' = l2
        /\ result' = Result("", l2, now, "success")
        /\ pc' = "done"

\* mutant: the fallback is recorded as an informational entry
ReturnFallbackInfo(l, now) ==
    LET l2 == add_log(l, now, "completion", "info",
                      "Khong the tao phan hoi cuoi cung", NoDetails)
    IN  /\ logs' = l2
        /\ result' = Result("Xin loi, toi khong the xu ly yeu cau cua ban.",
                            l2, now, "error")
        /\ pc' = "done"

\* agent.py:385-395
ReturnFallback(l, now) ==
    LET l2 == add_log(l, now, "completion", "error",
                      "Khong the tao phan hoi cuoi cung", NoDetails)
    IN  /\ logs' = l2
        /\ result' = Result("Xin loi, toi khong the xu ly yeu cau cua ban.",
                            l2, now, "error")
        /\ pc' = "done"

\* agent.py:264-270, configure_gemini and start_chat succeed
InitializeOk ==
    /\ pc = "start"
    /\ logs' = add_log(add_log(add_log(logs, clock,
                   "initialization", "processing", "Khoi tao AI Agent", NoDetails), clock,
                   "initialization", "success", "Khoi tao thanh cong", NoDetails), clock,
                   "prompt_analysis", "processing",
                   "Phan tich lenh: '" \o Prompt \o "'", NoDetails)
    /\ pc' = "send_prompt"
    /\ UNCHANGED <<inflight, body, turn_count, response, function_calls, text_parts, idx,
                   function_responses, result, files, clock, start_time, sent,
                   executed, failure, special, received>>

\* agent.py:264-267, configure_gemini or start_chat raises
InitializeFails ==
    /\ pc = "start"
    /\ OnException(ConfigError,
                   add_log(logs, clock, "initialization", "processing",
                           "Khoi tao AI Agent", NoDetails), clock)
    /\ UNCHANGED <<inflight, body, turn_count, response, function_calls, text_parts, idx,
                   function_responses, files, clock, start_time, sent,
                   executed, special, received>>

\* agent.py:273-274, the first send returns
SendPrompt ==
    /\ pc = "send_prompt"
    /\ \E r \in Replies :
          /\ MayReply(r)
          /\ special' = Drawn(r)
          /\ response' = r
    /\ received' = received + 1
    /\ sent' = Append(sent, [kind |-> "prompt", content |-> Prompt])
    /\ clock' = clock + 1
    /\ logs' = add_log(logs, clock + 1, "prompt_analysis", "success",
                       "Da gui lenh den AI", NoDetails)
    /\ pc' = "loop"
    /\ UNCHANGED <<inflight, body, turn_count, function_calls, text_parts, idx,
                   function_responses, result, files, start_time, executed,
                   failure>>

\* agent.py:273, the first send raises
SendPromptFails ==
    /\ pc = "send_prompt"
    /\ sent' = Append(sent, [kind |-> "prompt", content |-> Prompt])
    /\ clock' = clock + 1
    /\ OnException(TransportError, logs, clock + 1)
    /\ UNCHANGED <<inflight, body, turn_count, response, function_calls, text_parts, idx,
                   function_responses, files, start_time, executed, special,
                   received>>

\* mutant: the budget admits one turn too many
LoopConditionOffByOne == PartsOf(response) # <<>> /\ turn_count <= max_turns

\* the condition of the while of agent.py:279
LoopCondition == PartsOf(response) # <<>> /\ turn_count < max_turns

\* agent.py:279, response.candidates[0] raises on a reply without candidates
ReadTurnFails ==
    /\ pc = "loop"
    /\ response.candidates = <<>>
    /\ OnException(IndexError, logs, clock)
    /\ UNCHANGED <<inflight, body, turn_count, response, function_calls, text_parts, idx,
                   function_responses, files, clock, start_time, sent,
                   executed, special, received>>

\* agent.py:279, the loop is left because its condition is false
LoopExit ==
    /\ pc = "loop"
    /\ response.candidates # <<>>
    /\ ~LoopCondition
    /\ pc' = "salvage"
    /\ UNCHANGED <<inflight, body, turn_count, response, logs, function_calls, text_parts, idx,
                   function_responses, result, files, clock, start_time, sent,
                   executed, failure, special, received>>

\* mutant: only the first function call of the turn is kept
FunctionCallsFirstOnly(parts) ==
    LET calls == SelectSeq(parts, IsFunctionCall)
    IN  IF calls = <<>> THEN <<>> ELSE <<calls[1].function_call>>

\* mutant: the function calls of the turn are collected last first
FunctionCallsReversed(parts) ==
    LET calls == SelectSeq(parts, IsFunctionCall)
    IN  [i \in 1..Len(calls) |-> calls[Len(calls) + 1 - i].function_call]

\* agent.py:284-291
FunctionCallsOf(parts) ==
    LET calls == SelectSeq(parts, IsFunctionCall)
    IN  [i \in 1..Len(calls) |-> calls[i].function_call]
TextPartsOf(parts) == SelectSeq(parts, IsText)

\* mutant: the counter advances once per function call of the turn
AdvanceTurnPerCall(n, parts) == n + Len(SelectSeq(parts, IsFunctionCall))

\* agent.py:280: one more turn, whatever the parts of the turn
AdvanceTurn(n, parts) == n + 1

TurnLog(l, now, n) ==
    add_log(l, now, "processing", "info", "Xu ly turn " \o ToString(n), NoDetails)

\* agent.py:280-297, a turn with function calls
BeginToolTurn ==
    /\ pc = "loop"
    /\ response.candidates # <<>>
    /\ LoopCondition
    /\ FunctionCallsOf(PartsOf(response)) # <<>>
    /\ turn_count' = AdvanceTurn(turn_count, PartsOf(response))
    /\ function_calls' = FunctionCallsOf(PartsOf(response))
    /\ text_parts' = TextPartsOf(PartsOf(response))
    /\ logs' = add_log(TurnLog(logs, clock, turn_count'), clock,
                       "function_detection", "success",
                       "Phat hien " \o ToString(Len(function_calls')) \o " function call(s)",
                       NoDetails)
    /\ function_responses' = <<>>
    /\ idx' = 1
    /\ pc' = "dispatch"
    /\ UNCHANGED <<inflight, body, response, result, files, clock, start_time, sent, executed,
                   failure, special, received>>

\* agent.py:280-291 and 344-357, a turn with text and no function call
ReturnText ==
    /\ pc = "loop"
    /\ response.candidates # <<>>
    /\ LoopCondition
    /\ FunctionCallsOf(PartsOf(response)) = <<>>
    /\ TextPartsOf(PartsOf(response)) # <<>>
    /\ turn_count' = AdvanceTurn(turn_count, PartsOf(response))
    /\ function_calls' = <<>>
    /\ text_parts' = TextPartsOf(PartsOf(response))
    /\ ReturnSuccess(JoinText(text_parts'), TurnLog(logs, clock, turn_count'), clock,
                     turn_count', "Hoan thanh! Tao phan hoi cuoi cung")
    /\ UNCHANGED <<inflight, body, response, idx, function_responses, files, clock, start_time,
                   sent, executed, failure, special, received>>

\* agent.py:280-291 and 359-361, a turn with neither
BreakLoop ==
    /\ pc = "loop"
    /\ response.candidates # <<>>
    /\ LoopCondition
    /\ FunctionCallsOf(PartsOf(response)) = <<>>
    /\ TextPartsOf(PartsOf(response)) = <<>>
    /\ turn_count' = AdvanceTurn(turn_count, PartsOf(response))
    /\ function_calls' = <<>>
    /\ text_parts' = <<>>
    /\ logs' = add_log(TurnLog(logs, clock, turn_count'), clock, "processing", "info",
                       "Khong co function call hoac text response, thoat vong lap",
                       NoDetails)
    /\ pc' = "salvage"
    /\ UNCHANGED <<inflight, body, response, idx, function_responses, result, files, clock,
                   start_time, sent, executed, failure, special, received>>

\* mutant: the start of an execution is not recorded
ExecutionLogSkipped(l, now, i, n, call) == l

\* the trace entry of agent.py:317-319
ExecutionLog(l, now, i, n, call) ==
    add_log(l, now, "function_execution", "processing",
            "Thuc thi function " \o ToString(i) \o "/" \o ToString(n) \o ": " \o call.name,
            [function_name |-> call.name, arguments |-> Normalize(call.args)])

\* agent.py:299-334, one function call of the turn returns
DispatchReturns ==
    /\ pc = "dispatch"
    /\ idx <= Len(function_calls)
    /\ LET call == function_calls[idx]
           outcome == execute_function_call(files, clock, call.name, Normalize(call.args))
       IN  /\ ~outcome.raised
           /\ executed' = Append(executed, [reply |-> received, index |-> idx,
                                            name |-> call.name,
                                            args |-> Normalize(call.args)])
           /\ files' = outcome.files
           /\ logs' = add_log(ExecutionLog(logs, clock, idx, Len(function_calls), call),
                              clock, "function_execution", "success",
                              "Hoan thanh " \o call.name,
                              [result_preview |-> Preview(outcome.value, PreviewLen)])
           /\ function_responses' =
                  Append(function_responses,
                         [name |-> call.name, response |-> [result |-> outcome.value]])
    /\ idx' = idx + 1
    /\ UNCHANGED <<inflight, body, pc, turn_count, response, function_calls, text_parts,
                   result, clock, start_time, sent, failure, special, received>>

\* mutant: the files are put back as they were when the invocation began
DispatchRaisesRollsBack ==
    /\ pc = "dispatch"
    /\ idx <= Len(function_calls)
    /\ LET call == function_calls[idx]
           outcome == execute_function_call(files, clock, call.name, Normalize(call.args))
       IN  /\ outcome.raised
           /\ executed' = Append(executed, [reply |-> received, index |-> idx,
                                            name |-> call.name,
                                            args |-> Normalize(call.args)])
           /\ files' = InitFiles
           /\ OnException(outcome.value,
                          ExecutionLog(logs, clock, idx, Len(function_calls), call), clock)
    /\ UNCHANGED <<inflight, body, turn_count, response, function_calls, text_parts, idx,
                   function_responses, clock, start_time, sent, special,
                   received>>

\* agent.py:299-322, one function call of the turn raises
DispatchRaises ==
    /\ pc = "dispatch"
    /\ idx <= Len(function_calls)
    /\ LET call == function_calls[idx]
           outcome == execute_function_call(files, clock, call.name, Normalize(call.args))
       IN  /\ outcome.raised
           /\ executed' = Append(executed, [reply |-> received, index |-> idx,
                                            name |-> call.name,
                                            args |-> Normalize(call.args)])
           /\ files' = outcome.files
           /\ OnException(outcome.value,
                          ExecutionLog(logs, clock, idx, Len(function_calls), call), clock)
    /\ UNCHANGED <<inflight, body, turn_count, response, function_calls, text_parts, idx,
                   function_responses, clock, start_time, sent, special,
                   received>>

ResultsLog(l, now) ==
    add_log(l, now, "function_results", "processing",
            "Gui ket qua functions tro lai AI", NoDetails)

\* agent.py:336-341, the results of the turn are sent and the model replies
SendResults ==
    /\ pc = "dispatch"
    /\ idx > Len(function_calls)
    /\ \E r \in Replies :
          /\ MayReply(r)
          /\ special' = Drawn(r)
          /\ response' = r
    /\ received' = received + 1
    /\ sent' = Append(sent, [kind |-> "function_responses",
                             content |-> function_responses])
    /\ clock' = clock + 1
    /\ logs' = add_log(ResultsLog(logs, clock), clock + 1, "function_results", "success",
                       "AI da nhan ket qua", NoDetails)
    /\ pc' = "loop"
    /\ UNCHANGED <<inflight, body, turn_count, function_calls, text_parts, idx,
                   function_responses, result, files, start_time, executed,
                   failure>>

\* agent.py:336-339, the send of the results raises
SendResultsFails ==
    /\ pc = "dispatch"
    /\ idx > Len(function_calls)
    /\ sent' = Append(sent, [kind |-> "function_responses",
                             content |-> function_responses])
    /\ clock' = clock + 1
    /\ OnException(TransportError, ResultsLog(logs, clock), clock + 1)
    /\ UNCHANGED <<inflight, body, turn_count, response, function_calls, text_parts, idx,
                   function_responses, files, start_time, executed, special,
                   received>>

\* agent.py:364-383, text is found in the latest turn after the loop
SalvageText ==
    /\ pc = "salvage"
    /\ PartsOf(response) # <<>>
    /\ SelectSeq(PartsOf(response), HasText) # <<>>
    /\ ReturnSuccess(JoinText(SelectSeq(PartsOf(response), HasText)), logs, clock,
                     turn_count, "Trich xuat duoc phan hoi cuoi cung")
    /\ UNCHANGED <<inflight, body, turn_count, response, function_calls, text_parts, idx,
                   function_responses, files, clock, start_time, sent,
                   executed, failure, special, received>>

\* agent.py:364-395, no text in the latest turn after the loop
Fallback ==
    /\ pc = "salvage"
    /\ \/ PartsOf(response) = <<>>
       \/ SelectSeq(PartsOf(response), HasText) = <<>>
    /\ ReturnFallback(logs, clock)
    /\ UNCHANGED <<inflight, body, turn_count, response, function_calls, text_parts, idx,
                   function_responses, files, clock, start_time, sent,
                   executed, failure, special, received>>

Next ==
    \/ InitializeOk
    \/ InitializeFails
    \/ SendPrompt
    \/ SendPromptFails
    \/ ReadTurnFails
    \/ LoopExit
    \/ BeginToolTurn
    \/ ReturnText
    \/ BreakLoop
    \/ DispatchReturns
    \/ DispatchRaises
    \/ SendResults
    \/ SendResultsFails
    \/ SalvageText
    \/ Fallback

Spec == Init /\ [][Next]_vars

(***************************************************************************)
(* main.py: the handler of POST /tutor-command around run_agent_flow.      *)
(***************************************************************************)
FiveFields == {"response", "logs", "processing_time", "turns_processed", "status"}

\* mutant: the entries of the body carry no details
LogEntryWithoutDetails(entry) ==
    [timestamp |-> entry.timestamp, step |-> entry.step, status |-> entry.status,
     message |-> entry.message, details |-> NoDetails]

\* main.py:25-30, the model an entry of the trace is validated into
LogEntry(entry) ==
    [timestamp |-> entry.timestamp, step |-> entry.step, status |-> entry.status,
     message |-> entry.message,
     details |-> IF "details" \in DOMAIN entry THEN entry.details ELSE NoDetails]

\* main.py:33-38
TutorCommandResponse(text, l, time, turns, status) ==
    [response |-> text, logs |-> [i \in 1..Len(l) |-> LogEntry(l[i])],
     processing_time |-> time, turns_processed |-> turns, status |-> status]

\* the first field the handler reads that the result lacks (a KeyError), if any
MissingField(r) ==
    IF FiveFields \subseteq DOMAIN r THEN ""
    ELSE CHOOSE k \in FiveFields \ DOMAIN r :
             \A j \in FiveFields \ DOMAIN r :
                 \/ k = "response"
                 \/ k = "logs" /\ j # "response"
                 \/ k = "processing_time" /\ j \notin {"response", "logs"}
                 \/ k = "turns_processed" /\ j \in {"turns_processed", "status"}
                 \/ k = j

\* main.py:41-79: run_agent_flow has returned its result
handle_tutor_command ==
    /\ pc = "done"
    /\ body' =
          IF MissingField(result) = ""
          THEN TutorCommandResponse(result.response, result.logs,
                                    result.processing_time, result.turns_processed,
                                    result.status)
          ELSE TutorCommandResponse(
                   "Da xay ra loi khi xu ly yeu cau: '" \o MissingField(result) \o "'",
                   <<[timestamp |-> TimeStamp(clock), step |-> "error_handling",
                      status |-> "error",
                      message |-> "Loi API: '" \o MissingField(result) \o "'",
                      details |-> NoDetails]>>,
                   0, 0, "error")
    /\ pc' = "responded"
    /\ UNCHANGED <<inflight, turn_count, response, logs, function_calls, text_parts,
                   idx, function_responses, result, files, clock, start_time, sent,
                   executed, received, failure, special>>

HttpNext ==
    \/ Next
    \/ handle_tutor_command

HttpSpec == Init /\ [][HttpNext]_vars

(***************************************************************************)
(* The tools on their own: a caller hands calls to execute_function_call,  *)
(* one after another, over the files the calls before left behind.         *)
(***************************************************************************)
MaxCalls == 2       \* calls made one after another

\* the data files as shipped, and no data file at all (_read_json gives [])
NoFiles ==
    [students |-> <<>>, learning_objects |-> <<>>, assignments |-> <<>>,
     submissions |-> <<>>, reports |-> <<>>, pathways |-> <<>>, activity_logs |-> <<>>]
\* the data files with a second submission waiting
MoreFiles ==
    [InitFiles EXCEPT !.submissions =
        Append(@, [id |-> "sub_002", student_id |-> "s1", student_name |-> "An",
                   status |-> "submitted", submitted_date |-> "d1",
                   content |-> "bai hai"])]
ToolFiles == {InitFiles, NoFiles, MoreFiles}

Call(n, a) == [name |-> n, args |-> a]

GradeCalls ==
    {Call("grade_submission",
          Args3("submission_id", id, "score", score, "feedback_text", feedback)) :
        id \in {Str("sub_001"), Str("sub_999")},
        score \in {Num(0 - 1), Num(100), Num(101)},
        feedback \in {Str("tot"), NoneV}}
      \cup {Call("grade_submission",
                 ("submission_id" :> Str("sub_001")) @@ ("feedback_text" :> Str("tot")))}
AssignCalls ==
    {Call("assign_exercise",
          Args3("student_name", student, "learning_object_title", title,
                "num_questions", Num(5))) :
        student \in {Str("an"), Str("Binh"), NoneV},
        title \in {Str("tu"), Str("Elip")}}
OtherCalls ==
    {Call("list_available_submissions", EmptyArgs),
     Call("get_student_activity_log", "student_name" :> Str("An")),
     Call("get_student_activity_log", "student_name" :> Str("Binh")),
     Call("get_student_activity_log", EmptyArgs),
     Call("get_student_activity_log",
          ("student_name" :> Str("An")) @@ ("date_range" :> Str("today"))),
     Call("add_note_to_report",
          ("student_name" :> Str("An")) @@ ("note_text" :> Str("cham chi"))),
     Call("create_custom_pathway",
          ("student_name" :> Str("An"))
              @@ ("learning_object_titles" :> List(<<Str("Tu giac")>>))),
     Call("send_email", "student_name" :> Str("An"))}
ToolCalls == GradeCalls \cup AssignCalls \cup OtherCalls

ToolInit ==
    /\ pc = "tool"
    /\ files \in ToolFiles
    /\ turn_count = 0
    /\ response = Malformed
    /\ logs = <<>>
    /\ function_calls = <<>>
    /\ text_parts = <<>>
    /\ idx = 0
    /\ function_responses = <<>>
    /\ result = NoResult
    /\ clock = 0
    /\ start_time = 0
    /\ sent = <<>>
    /\ executed = <<>>
    /\ received = 0
    /\ failure = NoFailure
    /\ special = 0
    /\ body = NoBody
    /\ inflight = NoInflight

\* datetime.now() tells the day: the seconds of a day, and the day of a time
SecondsPerDay == 24 * 60 * 60
DayOf(now) == now \div SecondsPerDay

\* the seconds that may pass before a call: none, one, and for a look at the
\* activity log also a day
Gaps(c) ==
    IF c.name = "get_student_activity_log" THEN {0, 1, SecondsPerDay} ELSE {0, 1}

\* the call c is made dt seconds after the call before it
Made(c, dt) ==
    /\ executed' = Append(executed, [reply |-> 0, index |-> Len(executed) + 1,
                                     name |-> c.name, args |-> c.args])
    /\ clock' = clock + dt
    /\ files' = execute_function_call(files, clock + dt, c.name, c.args).files
    /\ UNCHANGED <<inflight, body, pc, turn_count, response, logs, function_calls, text_parts, idx,
                   result, start_time, sent, received, special>>

\* a call returns its string
ToolReturns ==
    /\ pc = "tool"
    /\ Len(executed) < MaxCalls
    /\ \E c \in ToolCalls : \E dt \in Gaps(c) :
          LET outcome == execute_function_call(files, clock + dt, c.name, c.args)
          IN  /\ ~outcome.raised
              /\ Made(c, dt)
              /\ function_responses' =
                     Append(function_responses,
                            [name |-> c.name, response |-> [result |-> outcome.value]])
              /\ failure' = NoFailure

\* a call raises
ToolRaises ==
    /\ pc = "tool"
    /\ Len(executed) < MaxCalls
    /\ \E c \in ToolCalls : \E dt \in Gaps(c) :
          LET outcome == execute_function_call(files, clock + dt, c.name, c.args)
          IN  /\ outcome.raised
              /\ Made(c, dt)
              /\ failure' = outcome.value
              /\ UNCHANGED function_responses

ToolNext ==
    \/ ToolReturns
    \/ ToolRaises

ToolSpec == ToolInit /\ [][ToolNext]_vars

(***************************************************************************)
(* Two invocations side by side over the same data files. A tool that      *)
(* saves a record reads its file, appends, writes the file back            *)
(* (tools.py:179-183 and 430-433), and _log_activity does the same with    *)
(* the activity log (tools.py:31-34); nothing guards the file in between.  *)
(***************************************************************************)
Workers == {1, 2}

\* calls that save a record
RaceCalls ==
    {Call("assign_exercise",
          Args3("student_name", Str("An"), "learning_object_title", Str("Tu giac"),
                "num_questions", Num(n))) : n \in {3, 5}}
      \cup {Call("create_custom_pathway",
                 ("student_name" :> Str("An"))
                     @@ ("learning_object_titles" :> List(<<Str("Tu giac")>>)))}

\* the file the call saves its record to
DataFile(c) == IF c.name = "assign_exercise" THEN "assignments" ELSE "pathways"

NotCalled == [pc |-> "idle", call |-> NoCall, now |-> 0, view |-> <<>>,
              saved |-> NoneV, logged |-> NoneV, value |-> ""]

RaceInit ==
    /\ pc = "race"
    /\ files = InitFiles
    /\ inflight \in {[one_at_a_time |-> b, calls |-> [p \in Workers |-> NotCalled]] :
                         b \in BOOLEAN}
    /\ turn_count = 0
    /\ response = Malformed
    /\ logs = <<>>
    /\ function_calls = <<>>
    /\ text_parts = <<>>
    /\ idx = 0
    /\ function_responses = <<>>
    /\ result = NoResult
    /\ clock = 0
    /\ start_time = 0
    /\ sent = <<>>
    /\ executed = <<>>
    /\ received = 0
    /\ failure = NoFailure
    /\ special = 0
    /\ body = NoBody

\* the worker is inside a tool call
Busy(p) == inflight.calls[p].pc \in {"read", "written", "logread"}

\* mutant: an invocation starts while the other is inside a tool call
MayRunAnyTime(p) == p \in Workers

\* invocations that run one at a time: none starts a tool call while another
\* is inside one
MayRun(p) == inflight.one_at_a_time => \A q \in Workers \ {p} : ~Busy(q)

\* what the call of worker p does on the files as p has read them
Outcome(p, file) ==
    LET w == inflight.calls[p]
    IN  execute_function_call([files EXCEPT ![file] = w.view], w.now,
                              w.call.name, w.call.args)

RaceUnchanged ==
    UNCHANGED <<pc, turn_count, response, logs, function_calls, text_parts, idx,
                function_responses, result, start_time, sent, executed, received,
                failure, special, body>>

\* tools.py:181, _read_json of the data file
RaceRead(p) ==
    /\ pc = "race"
    /\ inflight.calls[p].pc = "idle"
    /\ MayRun(p)
    /\ \E c \in RaceCalls :
          inflight' = [inflight EXCEPT !.calls[p] =
                          [@ EXCEPT !.pc = "read", !.call = c, !.now = clock,
                                    !.view = files[DataFile(c)]]]
    /\ clock' = clock + 1
    /\ UNCHANGED files
    /\ RaceUnchanged

\* tools.py:182-183, append and _write_json of the data file
RaceWrite(p) ==
    /\ pc = "race"
    /\ inflight.calls[p].pc = "read"
    /\ LET file == DataFile(inflight.calls[p].call)
           written == Outcome(p, file).files[file]
       IN  /\ files' = [files EXCEPT ![file] = written]
           /\ inflight' = [inflight EXCEPT !.calls[p] =
                               [@ EXCEPT !.pc = "written",
                                         !.saved = written[Len(written)]]]
    /\ UNCHANGED clock
    /\ RaceUnchanged

\* tools.py:32, _read_json of the activity log
RaceLogRead(p) ==
    /\ pc = "race"
    /\ inflight.calls[p].pc = "written"
    /\ inflight' = [inflight EXCEPT !.calls[p] =
                        [@ EXCEPT !.pc = "logread", !.view = files.activity_logs]]
    /\ UNCHANGED <<files, clock>>
    /\ RaceUnchanged

\* tools.py:33-34, append and _write_json of the activity log, and the return
RaceLogWrite(p) ==
    /\ pc = "race"
    /\ inflight.calls[p].pc = "logread"
    /\ LET out == Outcome(p, "activity_logs")
           written == out.files.activity_logs
       IN  /\ files' = [files EXCEPT !.activity_logs = written]
           /\ inflight' = [inflight EXCEPT !.calls[p] =
                               [@ EXCEPT !.pc = "returned",
                                         !.logged = written[Len(written)],
                                         !.value = out.value]]
    /\ UNCHANGED clock
    /\ RaceUnchanged

RaceNext ==
    \E p \in Workers :
        \/ RaceRead(p)
        \/ RaceWrite(p)
        \/ RaceLogRead(p)
        \/ RaceLogWrite(p)

RaceSpec == RaceInit /\ [][RaceNext]_vars


(***************************************************************************)
(* Properties.  The latest turn is read here from the reply itself, not    *)
(* through the loop's own classification.                                  *)
(***************************************************************************)
WellFormed == response.candidates # <<>>
LatestCalls == SelectSeq(PartsOf(response), LAMBDA p : p.function_call # NoCall)
LatestTexts ==
    SelectSeq(PartsOf(response), LAMBDA p : p.function_call = NoCall /\ p.text # "")
LatestText == JoinWith(" ", [i \in 1..Len(LatestTexts) |-> LatestTexts[i].text])
TextOnlyTurn == WellFormed /\ LatestCalls = <<>> /\ LatestTexts # <<>>
MixedTurn == WellFormed /\ LatestCalls # <<>> /\ LatestTexts # <<>>
EmptyTurn == WellFormed /\ PartsOf(response) = <<>>
Returned5 ==
    DOMAIN result = {"response", "logs", "processing_time", "turns_processed", "status"}

\* C1: the turn counter never exceeds 10, in any state and in any returned
\* result, whether the result is a success, the fallback or an error.
C1_TurnBudget ==
    /\ turn_count <= 10
    /\ pc = "done" => Returned5 /\ result.turns_processed <= 10

\* C1 witness: an invocation that used all ten turns and returned.
C1_Witness ==
    pc = "done" /\ result.turns_processed = 10 /\ Len(sent) = 11

\* C2: once the model has returned a turn with text and no function call,
\* nothing more is sent to the model and no tool is executed; the invocation
\* goes on to its return without waiting for anything, and it returns status
\* success with the text of that turn.
C2_TextOnlyTurnIsFinal ==
    /\ [](pc = "done" /\ TextOnlyTurn =>
            result.status = "success" /\ result.response = LatestText)
    /\ [][TextOnlyTurn =>
            /\ sent' = sent /\ executed' = executed /\ response' = response
            /\ pc' \in {"salvage", "done"}]_vars
    /\ [](TextOnlyTurn /\ pc # "done" => ENABLED Next)

\* C2 witness: a text-only turn with two text segments, received after a tool
\* turn, has been returned.
C2_Witness ==
    /\ pc = "done" /\ TextOnlyTurn /\ Len(LatestTexts) = 2
    /\ Len(executed) > 0 /\ result.status = "success"

\* C3 (as claimed): the text of a turn that also holds function calls is never
\* the final response: no invocation returns success on such a turn.
C3_MixedTurnNeverFinal ==
    pc = "done" /\ MixedTurn => result.status # "success"

\* the calls handed to execute_function_call for the latest reply
LatestExecuted == SelectSeq(executed, LAMBDA e : e.reply = received)

\* C4 (as claimed): every turn with function calls has each of them dispatched
\* exactly once, in order: when the invocation has returned without a
\* failure, the calls dispatched for the latest turn are the function calls
\* of that turn.
C4_EveryRequestDispatched ==
    pc = "done" /\ failure = NoFailure /\ WellFormed =>
        /\ Len(LatestExecuted) = Len(LatestCalls)
        /\ \A i \in 1..Len(LatestCalls) :
               LatestExecuted[i].name = LatestCalls[i].function_call.name

\* C4 (amended): while a turn is processed, its function calls are dispatched
\* one after another in the order of the turn, none twice; and whenever the
\* results are sent back, every function call of the turn has been dispatched
\* exactly once.
C4_DispatchedInOrderBeforeSend ==
    /\ [](pc = "dispatch" =>
            /\ Len(LatestExecuted) = idx - 1
            /\ Len(LatestExecuted) <= Len(LatestCalls)
            /\ \A i \in 1..Len(LatestExecuted) :
                   /\ LatestExecuted[i].index = i
                   /\ LatestExecuted[i].name = LatestCalls[i].function_call.name
                   /\ LatestExecuted[i].args
                          = Normalize(LatestCalls[i].function_call.args))
    /\ [](\A i, j \in 1..Len(executed) :
            i < j => <<executed[i].reply, executed[i].index>>
                        # <<executed[j].reply, executed[j].index>>)
    /\ [][sent' # sent /\ pc = "dispatch" =>
            /\ LatestCalls # <<>>
            /\ Len(LatestExecuted) = Len(LatestCalls)
            /\ executed' = executed]_vars

\* C4 witness: the results of a turn with two different function calls have
\* been sent back, after both were dispatched in the order of the turn.
C4_Witness ==
    /\ Len(sent) = 2 /\ received = 2 /\ Len(executed) = 2
    /\ executed[1].name = "send_email"
    /\ executed[2].name = "list_available_submissions"
    /\ Len(sent[2].content) = 2

\* what the handler of the outer try leaves behind for a failure described by e
Contained(e) ==
    /\ pc = "done" /\ Returned5
    /\ result.status = "error"
    /\ result.response = "Da xay ra loi: " \o e
    /\ result.logs = logs
    /\ logs[Len(logs)].step = "error" /\ logs[Len(logs)].status = "error"
    /\ logs[Len(logs)].message = "Loi he thong: " \o e

\* the places where run_agent_flow can fail, read from the histories
ConfigFailed == pc = "done" /\ sent = <<>>
SendFailed == Len(sent) > received
ReadFailed == pc = "done" /\ received > 0 /\ ~WellFormed
DispatchFailed == pc = "done" /\ Len(LatestExecuted) > Len(function_responses)

\* C5: no failure leaves run_agent_flow: whether the model cannot be set up,
\* a send raises, a reply cannot be read or a tool raises, the invocation
\* returns the five fields with status error, a response that embeds the
\* description of the failure, and an error entry at the end of the trace;
\* and the invocation is never left without a next step before it returns.
C5_FailuresContained ==
    /\ ConfigFailed => Contained(ConfigError)
    /\ SendFailed => Contained(TransportError)
    /\ ReadFailed => Contained(IndexError)
    /\ DispatchFailed => \E v \in {NoneV, Num(1)} : Contained(NoLower(v))
    /\ pc = "done" => Returned5 /\ result.status \in {"success", "error"}
    /\ pc # "done" => ENABLED Next

\* C5 witness: the second function call of a turn raised after the first
\* had returned.
C5_Witness ==
    DispatchFailed /\ Len(function_responses) = 1 /\ failure # NoFailure

\* every step of run_agent_flow moves it closer to its return
Variant ==
    CASE pc = "start" -> (max_turns + 1) * (MaxExtra + 2) + 4
      [] pc = "send_prompt" -> (max_turns + 1) * (MaxExtra + 2) + 3
      [] pc = "loop" -> (max_turns - turn_count) * (MaxExtra + 2) + 2
      [] pc = "dispatch" -> (max_turns - turn_count) * (MaxExtra + 2) + 2
                                + (Len(function_calls) + 2 - idx)
      [] pc = "salvage" -> 1
      [] OTHER -> 0

\* C6: every invocation terminates (each step decreases a natural number and
\* a step is possible until the invocation has returned), and at most 11
\* messages are sent to the model: the prompt, then at most 10 batches of
\* function results.
C6_TerminatesWithinBudget ==
    /\ [][Variant' < Variant]_vars
    /\ [](Variant >= 0)
    /\ [](pc # "done" => ENABLED Next)
    /\ [](/\ Len(sent) <= 11
          /\ \A k \in 1..Len(sent) :
                sent[k].kind = (IF k = 1 THEN "prompt" ELSE "function_responses"))

\* C6 witness: the model answered all 11 messages with function calls and no
\* text, and the invocation returned.
C6_Witness ==
    /\ pc = "done" /\ Len(sent) = 11 /\ received = 11
    /\ WellFormed /\ LatestCalls # <<>> /\ LatestTexts = <<>>
    /\ result.status = "error"

\* C7: when the latest reply is a turn without any segment, the invocation
\* returns the fixed fallback message with status error, through the
\* completion step and not through the exception handler.
C7_EmptyTurnFallsBack ==
    /\ pc = "done" /\ EmptyTurn =>
          /\ result.status = "error"
          /\ result.response = "Xin loi, toi khong the xu ly yeu cau cua ban."
          /\ failure = NoFailure
          /\ logs[Len(logs)].step = "completion"
          /\ logs[Len(logs)].status = "error"
    /\ EmptyTurn /\ pc # "done" => ENABLED Next

\* C7 witness: an empty turn received after a tool turn has been answered.
C7_Witness == pc = "done" /\ EmptyTurn /\ received = 2

\* the entry of function_responses for a call to an unregistered name
UnknownResponse(e) ==
    [name |-> e.name, response |-> [result |-> "Unknown function: " \o e.name]]

\* C8: a function call with an unregistered name does not raise: its result
\* is the string 'Unknown function: <name>', kept at the position of the call
\* among the results of the turn and sent back with them, and after it the
\* turn goes on (next call, then the send of the results).
C8_UnknownToolIsAnswered ==
    /\ [](\A k \in 1..Len(executed) :
            executed[k].name \notin RegisteredTools =>
                LET e == executed[k]
                    batch == IF Len(sent) > e.reply THEN sent[e.reply + 1].content
                             ELSE function_responses
                IN  /\ Len(batch) >= e.index
                    /\ batch[e.index] = UnknownResponse(e)
                    /\ Len(sent) > e.reply =>
                          Len(batch) = Len(SelectSeq(executed,
                                               LAMBDA x : x.reply = e.reply)))
    /\ [][pc = "dispatch" /\ idx <= Len(function_calls)
            /\ function_calls[idx].name \notin RegisteredTools =>
               pc' = "dispatch" /\ idx' = idx + 1 /\ failure' = NoFailure]_vars
    /\ [](pc = "dispatch" /\ idx > Len(function_calls) => ENABLED SendResults)

\* C8 witness: a turn asked for an unregistered tool and a registered one, both
\* results were sent back in one message and the model has replied to it.
C8_Witness ==
    /\ received = 2 /\ Len(executed) = 2
    /\ executed[1].name = "list_available_submissions"
    /\ executed[2].name = "send_email"
    /\ Len(sent) = 2 /\ Len(sent[2].content) = 2
    /\ sent[2].content[2] = UnknownResponse(executed[2])

ErrorEntries(l) == SelectSeq(l, LAMBDA entry : entry.step = "error")

\* C9: when the first send fails, the result has status error and
\* turns_processed 0, no tool has been executed, and the trace holds exactly
\* one entry of phase error, its last.
C9_FirstSendFails ==
    pc = "done" /\ Len(sent) = 1 /\ received = 0 =>
        /\ result.status = "error"
        /\ result.turns_processed = 0
        /\ executed = <<>> /\ files = InitFiles
        /\ Len(ErrorEntries(result.logs)) = 1
        /\ result.logs[Len(result.logs)].step = "error"

\* C9 witness: the first send has failed and the invocation has returned.
C9_Witness ==
    pc = "done" /\ Len(sent) = 1 /\ received = 0 /\ failure = TransportError

ExecutionSuccesses(l) ==
    SelectSeq(l, LAMBDA entry : entry.step = "function_execution"
                                /\ entry.status = "success")

\* C10: an invocation in which k <= 9 turns with function calls are followed
\* by a turn with text only returns success with turns_processed = k + 1,
\* whatever the number of calls per turn, and its trace holds one
\* function_execution/success entry per call executed.
C10_TurnsCountIterations ==
    pc = "done" /\ TextOnlyTurn /\ received <= 10 =>
        /\ result.status = "success"
        /\ Len(sent) = received
        /\ result.turns_processed = (Len(sent) - 1) + 1
        /\ Len(ExecutionSuccesses(result.logs)) = Len(executed)

\* C10 witness: nine tool turns, one of them with two calls, then a text turn.
C10_Witness ==
    /\ pc = "done" /\ TextOnlyTurn /\ Len(sent) = 10
    /\ Len(executed) = 10 /\ result.turns_processed = 10

FallbackMessage == "Xin loi, toi khong the xu ly yeu cau cua ban."
FailureMessage == "Da xay ra loi: " \o failure

\* C11: a returned result has status success or error and no other; it has
\* status success exactly when its response is the text of the latest model
\* turn (its text segments joined) and no failure was caught, and status
\* error exactly when its response is the fixed fallback message or the
\* message of the failure caught.
C11_StatusTellsProvenance ==
    pc = "done" =>
        /\ result.status \in {"success", "error"}
        /\ result.status = "success" <=>
              /\ WellFormed /\ LatestTexts # <<>>
              /\ result.response = LatestText
              /\ failure = NoFailure
        /\ result.status = "error" <=>
              \/ failure = NoFailure /\ result.response = FallbackMessage
              \/ failure # NoFailure /\ result.response = FailureMessage

\* C11 witness: text found by the step after the loop, once ten turns had been
\* processed, has been returned as a success.
C11_Witness ==
    /\ pc = "done" /\ result.status = "success"
    /\ turn_count = 10 /\ received = 11 /\ result.response = "Xong."

\* C12: the trace only grows at its end: every step leaves the entries
\* already recorded as they are and where they are, adding zero or more after
\* them; and the trace of a returned result is the whole trace recorded.
C12_TraceAppendOnly ==
    /\ [][/\ Len(logs') >= Len(logs)
          /\ \A k \in 1..Len(logs) : logs'[k] = logs[k]]_vars
    /\ [](pc = "done" => result.logs = logs)

\* C12 witness: a returned trace with the entries of a turn of two function
\* calls in it.
C12_Witness ==
    /\ pc = "done" /\ result.logs = logs /\ Len(logs) >= 12
    /\ Len(executed) = 2 /\ executed[2].index = 2

\* the domain error a call runs into with the files f, read from its arguments
ArgOf(call, key) == IF key \in DOMAIN call.args THEN call.args[key] ELSE NoneV
KnownStudent(f, v) ==
    v.type = "str" /\ \E i \in 1..Len(f.students) : Lower(f.students[i].name) = Lower(v.val)
KnownTopic(f, v) ==
    /\ v.type = "str"
    /\ \E i \in 1..Len(f.learning_objects) :
           \/ Contains(Lower(v.val), Lower(f.learning_objects[i].title))
           \/ Contains(Lower(f.learning_objects[i].title), Lower(v.val))
KnownSubmission(f, v) ==
    v.type = "str" /\ \E i \in 1..Len(f.submissions) : f.submissions[i].id = v.val
ScoreOutOfRange(v) == v.type = "num" /\ (v.val < 0 \/ v.val > 100)
DomainErrorOf(call, f) ==
    CASE /\ call.name \in {"assign_exercise", "get_student_activity_log",
                           "add_note_to_report", "create_custom_pathway"}
         /\ ArgOf(call, "student_name").type = "str"
         /\ ~KnownStudent(f, ArgOf(call, "student_name")) ->
            "Khong tim thay hoc sinh co ten '" \o ArgOf(call, "student_name").val \o "'"
      [] /\ call.name = "assign_exercise"
         /\ KnownStudent(f, ArgOf(call, "student_name"))
         /\ ArgOf(call, "learning_object_title").type = "str"
         /\ ~KnownTopic(f, ArgOf(call, "learning_object_title")) ->
            "Khong tim thay chu de hoc tap '"
                \o ArgOf(call, "learning_object_title").val \o "'"
      [] /\ call.name = "grade_submission"
         /\ ArgOf(call, "submission_id").type = "str"
         /\ ~KnownSubmission(f, ArgOf(call, "submission_id")) ->
            "Khong tim thay bai nop co ID '" \o ArgOf(call, "submission_id").val \o "'"
      [] /\ call.name = "grade_submission"
         /\ KnownSubmission(f, ArgOf(call, "submission_id"))
         /\ ScoreOutOfRange(ArgOf(call, "score")) ->
            "Diem so phai nam trong khoang 0-100"
      [] OTHER -> ""

\* C13: a function call that runs into a domain error (no such student,
\* topic or submission, score outside 0-100) does not raise: its result, the
\* message of the error, is appended to the results of the turn, the turn goes
\* on, the results are sent back as they are, and the reply of the model
\* opens the next turn without any error status.
C13_DomainErrorsAreStrings ==
    /\ [][pc = "dispatch" /\ idx <= Len(function_calls)
            /\ DomainErrorOf(function_calls[idx], files) # "" =>
               /\ pc' = "dispatch" /\ idx' = idx + 1 /\ failure' = NoFailure
               /\ function_responses' =
                      Append(function_responses,
                             [name |-> function_calls[idx].name,
                              response |->
                                  [result |-> DomainErrorOf(function_calls[idx], files)]])
         ]_vars
    /\ [][pc = "dispatch" /\ sent' # sent =>
               sent'[Len(sent')].content = function_responses]_vars
    /\ [][pc = "dispatch" /\ received' # received =>
               pc' = "loop" /\ failure' = NoFailure /\ result' = NoResult]_vars
    /\ [](pc = "dispatch" /\ idx > Len(function_calls) /\ function_responses # <<>> =>
               ENABLED SendResults)

\* C13 witness: a turn graded a submission with 150 points and then listed the
\* submissions; both results were sent back and the model has replied.
C13_Witness ==
    /\ pc = "loop" /\ received = 2 /\ Len(sent) = 2 /\ Len(sent[2].content) = 2
    /\ sent[2].content[1].name = "grade_submission"
    /\ sent[2].content[1].response.result = "Diem so phai nam trong khoang 0-100"
    /\ result = NoResult /\ failure = NoFailure

\* the call just made, when a step makes one
CallMade == executed'[Len(executed')]
MakesCall(name) == Len(executed') = Len(executed) + 1 /\ CallMade.name = name
\* the step returned the string r
ReturnsString(r) ==
    /\ Len(function_responses') = Len(function_responses) + 1
    /\ function_responses'[Len(function_responses')].response.result = r
Graded(f, id, score, feedback) ==
    \E i \in 1..Len(f.submissions) :
        /\ f.submissions[i].id = id.val
        /\ {"score", "feedback", "status"} \subseteq DOMAIN f.submissions[i]
        /\ f.submissions[i].score = score
        /\ f.submissions[i].feedback = feedback
        /\ f.submissions[i].status = "graded"

\* C14 (as claimed): a grade_submission call with a score outside [0, 100]
\* returns an error string and changes neither the submissions nor the
\* activity log; every call with a score within [0, 100] leaves the submission
\* graded with that score and feedback.
C14_AcceptsWheneverInRange ==
    [][MakesCall("grade_submission") =>
          LET id == ArgOf(CallMade, "submission_id")
              score == ArgOf(CallMade, "score")
              feedback == ArgOf(CallMade, "feedback_text")
          IN  /\ ScoreOutOfRange(score) =>
                    /\ Len(function_responses') = Len(function_responses) + 1
                    /\ files'.submissions = files.submissions
                    /\ files'.activity_logs = files.activity_logs
              /\ score.type = "num" /\ ~ScoreOutOfRange(score) =>
                    Graded(files', id, score, feedback)
      ]_vars

\* C14 (amended): a grade_submission call for an id that matches no
\* submission returns the not-found string and changes no file, whatever the
\* score; for a submission that exists, a score outside [0, 100] returns the
\* range message and changes no file, and a score within [0, 100] leaves that
\* submission with the score, the feedback and status graded, the other
\* submissions as they were, and, when the feedback is a string, one more
\* entry in the activity log.
C14_GradesExistingSubmissionInRange ==
    [][MakesCall("grade_submission") =>
          LET id == ArgOf(CallMade, "submission_id")
              score == ArgOf(CallMade, "score")
              feedback == ArgOf(CallMade, "feedback_text")
          IN  /\ id.type = "str" /\ ~KnownSubmission(files, id) =>
                    /\ ReturnsString("Khong tim thay bai nop co ID '" \o id.val \o "'")
                    /\ files' = files
              /\ KnownSubmission(files, id) /\ ScoreOutOfRange(score) =>
                    /\ ReturnsString("Diem so phai nam trong khoang 0-100")
                    /\ files' = files
              /\ KnownSubmission(files, id) /\ score.type = "num"
                     /\ ~ScoreOutOfRange(score) =>
                    /\ Graded(files', id, score, feedback)
                    /\ Len(files'.submissions) = Len(files.submissions)
                    /\ \A i \in 1..Len(files.submissions) :
                           files.submissions[i].id # id.val =>
                               files'.submissions[i] = files.submissions[i]
                    /\ feedback.type = "str" =>
                           /\ Len(function_responses') = Len(function_responses) + 1
                           /\ Len(files'.activity_logs) = Len(files.activity_logs) + 1
      ]_vars

\* C14 witness: a submission was graded with 100 points and then the same
\* submission was refused 101 points, which left the grade of 100 in the file.
C14_Witness ==
    /\ pc = "tool" /\ Len(executed) = 2 /\ Len(function_responses) = 2
    /\ executed[1].name = "grade_submission" /\ ArgOf(executed[1], "score") = Num(100)
    /\ executed[2].name = "grade_submission" /\ ArgOf(executed[2], "score") = Num(101)
    /\ function_responses[2].response.result = "Diem so phai nam trong khoang 0-100"
    /\ Graded(files, Str("sub_001"), Num(100), Str("tot"))

\* C15: an assign_exercise call with a student name that matches no student
\* returns the not-found string for that name and changes no file: the
\* assignments, the activity log and every other file are as before the call.
C15_UnknownStudentChangesNothing ==
    [][MakesCall("assign_exercise")
          /\ ArgOf(CallMade, "student_name").type = "str"
          /\ ~KnownStudent(files, ArgOf(CallMade, "student_name")) =>
          /\ ReturnsString("Khong tim thay hoc sinh co ten '"
                               \o ArgOf(CallMade, "student_name").val \o "'")
          /\ files'.assignments = files.assignments
          /\ files'.activity_logs = files.activity_logs
          /\ files' = files
      ]_vars

\* C15 witness: after an exercise was assigned to An, an exercise on the same
\* topic was asked for Binh, who is no student: the files hold the one
\* assignment and its log entry.
C15_Witness ==
    /\ pc = "tool" /\ Len(executed) = 2 /\ Len(function_responses) = 2
    /\ executed[1].name = "assign_exercise" /\ executed[2].name = "assign_exercise"
    /\ ArgOf(executed[1], "student_name") = Str("an")
    /\ ArgOf(executed[2], "student_name") = Str("Binh")
    /\ ArgOf(executed[2], "learning_object_title") = Str("tu")
    /\ function_responses[2].response.result = "Khong tim thay hoc sinh co ten 'Binh'"
    /\ Len(files.assignments) = 1 /\ Len(files.activity_logs) = 1

\* C16: the handler of POST /tutor-command answers with the five fields
\* response, logs, processing_time, turns_processed and status, and each of
\* them equals the field of the result run_agent_flow returned, whether that
\* result is a success or an error.
C16_BodyCarriesResult ==
    /\ [](pc = "responded" =>
            /\ DOMAIN body = FiveFields
            /\ result.status \in {"success", "error"}
            /\ \A k \in FiveFields : body[k] = result[k])
    /\ [](pc = "done" => ENABLED handle_tutor_command)
    /\ [][pc = "done" => pc' = "responded"]_vars

\* C16 witness: the handler has answered with the result of an invocation in
\* which the second function call of a turn raised, a result with status error.
C16_Witness ==
    /\ pc = "responded" /\ body.status = "error" /\ failure # NoFailure
    /\ Len(executed) = 2 /\ Len(function_responses) = 1
    /\ Len(body.logs) = Len(logs) /\ body.logs[Len(logs)].step = "error"
    /\ body.response = "Da xay ra loi: " \o failure

\* the latest turn has parts, none of them a function call or a text
BlankTurn == WellFormed /\ PartsOf(response) # <<>> /\ LatestCalls = <<>> /\ LatestTexts = <<>>

\* C17: when the loop is left because ten turns were processed or because
\* the turn held neither a function call nor a text, the next step returns a
\* result decided by the latest turn alone: success with its text segments
\* joined if it has any, the fixed fallback message with status error
\* otherwise; nothing is sent and no function call of that turn is executed.
C17_SalvageDecidesByLatestTurn ==
    /\ [][pc = "loop" /\ WellFormed /\ PartsOf(response) # <<>>
            /\ (turn_count = max_turns \/ BlankTurn) =>
               pc' = "salvage" /\ executed' = executed /\ sent' = sent]_vars
    /\ [][pc = "salvage" =>
            /\ pc' = "done"
            /\ executed' = executed /\ sent' = sent /\ files' = files
            /\ response' = response /\ failure' = NoFailure
            /\ IF LatestTexts # <<>>
               THEN result'.status = "success" /\ result'.response = LatestText
               ELSE result'.status = "error" /\ result'.response = FallbackMessage
         ]_vars
    /\ [](pc = "salvage" => ENABLED Next /\ LatestExecuted = <<>>)

\* C17 witness: the eleventh turn, with a function call and a text, was
\* answered with its text and its function call was not executed.
C17_Witness ==
    /\ pc = "done" /\ received = 11 /\ turn_count = max_turns
    /\ MixedTurn /\ LatestExecuted = <<>>
    /\ result.status = "success" /\ result.response = LatestText

\* C18 (as claimed): when the latest turn has no segment at all, the trace of
\* the returned result holds an entry with status info, recorded for the exit
\* from the loop, right before the completion entry.
C18_EmptyTurnRecordsInfo ==
    pc = "done" /\ EmptyTurn =>
        /\ Len(logs) >= 2
        /\ logs[Len(logs)].step = "completion"
        /\ logs[Len(logs) - 1].status = "info"

\* C19 (as claimed): every turn with function calls is answered with one
\* message that carries one result per call: when the invocation has returned
\* without a failure, the last message sent answers the latest turn.
C19_EveryToolTurnAnswered ==
    pc = "done" /\ failure = NoFailure /\ WellFormed /\ LatestCalls # <<>> =>
        /\ Len(sent) = received + 1
        /\ Len(sent[Len(sent)].content) = Len(LatestCalls)

\* the string the i-th function call of the latest turn returns now
ResultNow(i) ==
    execute_function_call(files, clock, LatestCalls[i].function_call.name,
                          Normalize(LatestCalls[i].function_call.args)).value

\* C19 (amended): for a turn that the loop processes and in which no call
\* raises, each call that returns adds to the results of the turn one entry
\* with the name of the call and the whole string it returned, in the order
\* of the turn; the results are sent in one message, one result per call of
\* the turn, and the next message, if any, answers the next turn.
C19_OneMessagePerProcessedTurn ==
    /\ [][pc = "dispatch" /\ idx' = idx + 1 =>
            function_responses' =
                Append(function_responses,
                       [name |-> LatestCalls[idx].function_call.name,
                        response |-> [result |-> ResultNow(idx)]])]_vars
    /\ [][pc = "dispatch" /\ sent' # sent =>
            /\ sent' = Append(sent, [kind |-> "function_responses",
                                     content |-> function_responses])
            /\ Len(function_responses) = Len(LatestCalls)
            /\ \A i \in 1..Len(LatestCalls) :
                   function_responses[i].name = LatestCalls[i].function_call.name
            /\ Len(sent) = received
            /\ pc' # "dispatch"]_vars
    /\ [](pc = "dispatch" => Len(sent) = received /\ Len(function_responses) = idx - 1)

\* C19 witness: a turn asked for an unregistered tool and for the list of
\* submissions; one message with the two results, in that order and in full,
\* was sent and answered.
C19_Witness ==
    /\ received = 2 /\ Len(sent) = 2 /\ Len(sent[2].content) = 2
    /\ sent[2].content[1] = [name |-> "send_email",
                             response |-> [result |-> "Unknown function: send_email"]]
    /\ sent[2].content[2].name = "list_available_submissions"
    /\ sent[2].content[2].response.result = list_available_submissions(InitFiles).value

\* the entries a step adds to the trace, and the phase and status of entries
Added == SubSeq(logs', Len(logs) + 1, Len(logs'))
Kinds(q) == [i \in 1..Len(q) |-> <<q[i].step, q[i].status>>]
Detection == <<"function_detection", "success">>
ExecutionStart == <<"function_execution", "processing">>
ExecutionEnd == <<"function_execution", "success">>
ResultsStart == <<"function_results", "processing">>
ResultsEnd == <<"function_results", "success">>
Caught == <<"error", "error">>

\* C20: the trace of a turn with function calls is ordered: the detection
\* entry is recorded when the turn starts, before any execution entry; every
\* call has its execution/processing entry, naming it, recorded before the
\* tool has any effect (it is there even when the tool raises) and, when the
\* tool returns, its execution/success entry right after and before the entry
\* of the next call; the results/processing entry follows the last call and
\* is recorded before the send (it is there, with the time before the send,
\* even when the send fails), and results/success is recorded after the reply.
C20_ToolTurnTraceOrder ==
    /\ [][pc = "loop" /\ pc' = "dispatch" =>
            Kinds(Added) = <<(<<"processing", "info">>), Detection>>]_vars
    /\ [][pc = "dispatch" /\ executed' # executed =>
            /\ Len(Added) = 2
            /\ Kinds(Added)[1] = ExecutionStart
            /\ Added[1].details.function_name = function_calls[idx].name
            /\ Kinds(Added)[2] = (IF failure' = NoFailure THEN ExecutionEnd ELSE Caught)
            /\ sent' = sent]_vars
    /\ [][pc = "dispatch" /\ sent' # sent =>
            /\ Len(Added) = 2
            /\ Kinds(Added)[1] = ResultsStart
            /\ Added[1].timestamp = TimeStamp(clock)
            /\ Kinds(Added)[2] = (IF received' = received + 1 THEN ResultsEnd ELSE Caught)
            /\ Added[2].timestamp = TimeStamp(clock')
            /\ clock' > clock
            /\ executed' = executed]_vars
    /\ [][pc = "dispatch" => executed' # executed \/ sent' # sent]_vars
    /\ [](pc = "dispatch" =>
            LET base == Len(logs) - 2 * (idx - 1)
            IN  /\ base >= 1
                /\ Kinds(logs)[base] = Detection
                /\ \A j \in 1..(idx - 1) :
                       /\ Kinds(logs)[base + 2 * j - 1] = ExecutionStart
                       /\ Kinds(logs)[base + 2 * j] = ExecutionEnd
                       /\ logs[base + 2 * j - 1].details.function_name
                              = function_calls[j].name)

\* C20 witness: the trace of a first turn with two function calls, answered by
\* the model: detection, two pairs of execution entries, the two entries of
\* the results.
C20_Witness ==
    /\ pc = "loop" /\ received = 2 /\ Len(executed) = 2 /\ Len(logs) = 12
    /\ Kinds(SubSeq(logs, 6, 12)) =
           <<Detection, ExecutionStart, ExecutionEnd, ExecutionStart, ExecutionEnd,
             ResultsStart, ResultsEnd>>
    /\ logs[7].details.function_name # logs[9].details.function_name

\* what the claim says of the preview of a result r
PreviewOf(r) == IF Len(r) <= 100 THEN r ELSE SubSeq(r, 1, 100) \o "..."
\* a tool name of 82 characters: the answer to it has exactly 100
Name82 == "send_email_send_email_send_email_send_email_send_email_send_email_send_email_send_"

\* C21: when a function call returns r, the execution/success entry recorded
\* for it holds as result_preview r itself if r has at most 100 characters and
\* the first 100 characters of r followed by '...' otherwise, and the result
\* appended for the model, and later sent, is r in full; a result of exactly
\* 100 characters is kept whole and one of 101 is cut.
C21_PreviewCutsTraceOnly ==
    /\ [][pc = "dispatch" /\ idx' = idx + 1 =>
            /\ function_responses'[idx].response.result = ResultNow(idx)
            /\ logs'[Len(logs')].step = "function_execution"
            /\ logs'[Len(logs')].status = "success"
            /\ logs'[Len(logs')].details.result_preview = PreviewOf(ResultNow(idx))]_vars
    /\ [][pc = "dispatch" /\ sent' # sent =>
            sent'[Len(sent')].content = function_responses]_vars
    /\ [](LET r == UnknownFunction(Name82)
          IN  /\ Len(r) = 100 /\ Preview(r, PreviewLen) = r
              /\ Len(r \o "!") = 101
              /\ Preview(r \o "!", PreviewLen) = r \o "...")

\* C21 witness: the list of submissions, 200 characters long, was sent to the
\* model in full while the trace holds its first 100 characters and '...'.
C21_Witness ==
    /\ received = 2 /\ Len(sent) = 2 /\ Len(sent[2].content) = 1 /\ Len(logs) >= 8
    /\ Len(sent[2].content[1].response.result) = 200
    /\ logs[8].step = "function_execution" /\ logs[8].status = "success"
    /\ Len(logs[8].details.result_preview) = 103
    /\ logs[8].details.result_preview
           = SubSeq(sent[2].content[1].response.result, 1, 100) \o "..."

\* the texts of a turn joined by one space, skipping function calls and
\* empty texts
RECURSIVE SpaceJoined(_)
SpaceJoined(parts) ==
    IF parts = <<>> THEN ""
    ELSE LET rest == SpaceJoined(Tail(parts))
         IN  IF Head(parts).function_call # NoCall \/ Head(parts).text = "" THEN rest
             ELSE IF rest = "" THEN Head(parts).text
             ELSE Head(parts).text \o " " \o rest

\* C22: the response of a result with status success is made of the texts of
\* the latest turn, all of them and in their order, with one space between
\* two of them; function calls and empty texts add nothing to it.
C22_ResponseIsSpaceJoinedTexts ==
    pc = "done" /\ result.status = "success" =>
        /\ WellFormed
        /\ result.response = SpaceJoined(PartsOf(response))
        /\ result.response # ""

\* C22 witness: a turn with the texts 'Mot.' and 'Hai.' around an empty text
\* was returned as 'Mot. Hai.'.
C22_Witness ==
    /\ pc = "done" /\ result.status = "success" /\ Len(PartsOf(response)) = 3
    /\ LatestCalls = <<>> /\ result.response = "Mot. Hai."

\* the arguments of the k-th call executed, as the model sent them
SentArgs(k) ==
    SelectSeq(PartsOf(response), LAMBDA p : p.function_call # NoCall)[executed[k].index]
        .function_call.args
ArrayLike(v) == v.type \in {"repeated", "list"}

\* C23 (as claimed): the arguments handed to a tool have the keys of the
\* arguments the model sent, every array among them is a sequence of strings
\* with the elements of the original in their order, and every scalar is the
\* original value.
C23_ArraysBecomeStrings ==
    \A k \in 1..Len(executed) :
        executed[k].reply = received /\ WellFormed =>
            /\ DOMAIN executed[k].args = DOMAIN SentArgs(k)
            /\ \A key \in DOMAIN SentArgs(k) :
                   IF ArrayLike(SentArgs(k)[key])
                   THEN /\ executed[k].args[key].type = "list"
                        /\ Len(executed[k].args[key].val) = Len(SentArgs(k)[key].val)
                        /\ \A i \in 1..Len(SentArgs(k)[key].val) :
                               /\ executed[k].args[key].val[i].type = "str"
                               /\ executed[k].args[key].val[i].val
                                      = Format(SentArgs(k)[key].val[i])
                   ELSE executed[k].args[key] = SentArgs(k)[key]

HasUnlistable(args) == \E key \in DOMAIN args : args[key] = Unlistable

\* C24: normalization never aborts the invocation. Every function call of a
\* turn being processed is dispatched whatever its arguments are; a value
\* whose conversion to a list fails reaches the tool as the original value,
\* under its key; and when the tool returns for these arguments the
\* invocation goes on with the result collected and no failure recorded.
C24_ConversionFailureKeepsValue ==
    [][pc = "dispatch" /\ idx <= Len(function_calls) =>
          /\ Len(executed') = Len(executed) + 1
          /\ LET c == function_calls[idx]
                 e == executed'[Len(executed')]
             IN  /\ e.name = c.name /\ e.index = idx
                 /\ DOMAIN e.args = DOMAIN c.args
                 /\ \A key \in DOMAIN c.args :
                        c.args[key] = Unlistable => e.args[key] = Unlistable
                 /\ HasUnlistable(c.args)
                        /\ ~execute_function_call(files, clock, c.name, e.args).raised
                    => /\ pc' = "dispatch" /\ idx' = idx + 1
                       /\ failure' = failure /\ result' = result
                       /\ Len(function_responses') = Len(function_responses) + 1
                       /\ \A n \in 1..Len(logs') : logs'[n].status # "error"]_vars

\* C24 witness: a call with a value that cannot be converted was dispatched
\* with that value and the invocation returned with status success.
C24_Witness ==
    /\ pc = "done" /\ result.status = "success"
    /\ \E k \in 1..Len(executed) :
           /\ executed[k].name = "get_student_activity_log"
           /\ HasUnlistable(executed[k].args)

InFile(record, file) == \E i \in 1..Len(files[file]) : files[file][i] = record
Saved(p) == inflight.calls[p].pc \in {"written", "logread", "returned"}
ReportedSaved(p) ==
    /\ inflight.calls[p].pc = "returned"
    /\ Contains("Da ", inflight.calls[p].value)
LostUpdate(p) ==
    /\ ReportedSaved(p)
    /\ \/ ~InFile(inflight.calls[p].saved, DataFile(inflight.calls[p].call))
       \/ ~InFile(inflight.calls[p].logged, "activity_logs")

\* C25: a tool saves by reading the file, appending and writing back what it
\* read plus its record, whatever the file holds at the time of the write.
\* When invocations run one at a time, a record once written stays in its
\* file and every call that reported success has its record and its
\* activity entry in the files. A call whose record or entry is missing is
\* found only when invocations run side by side.
C25_SerialCallsLoseNothing ==
    /\ [][\A p \in Workers :
             inflight.calls[p].pc = "read" /\ inflight'.calls[p].pc = "written" =>
                 files'[DataFile(inflight.calls[p].call)]
                     = Append(inflight.calls[p].view, inflight'.calls[p].saved)]_vars
    /\ [](inflight.one_at_a_time =>
              \A p \in Workers :
                  /\ Saved(p) =>
                         InFile(inflight.calls[p].saved, DataFile(inflight.calls[p].call))
                  /\ ReportedSaved(p) => InFile(inflight.calls[p].logged, "activity_logs")
                  /\ ~LostUpdate(p))

\* C25 witness: two invocations ran side by side, both calls reported their
\* record as saved, and the record of one of them is not in its file.
C25_Witness ==
    /\ ~inflight.one_at_a_time
    /\ \A p \in Workers : ReportedSaved(p)
    /\ \E p \in Workers :
           ~InFile(inflight.calls[p].saved, DataFile(inflight.calls[p].call))

\* the activity a tool records when it succeeds
ActivityOf(name) ==
    CASE name = "assign_exercise" -> "assignment_created"
      [] name = "grade_submission" -> "submission_graded"
      [] name = "add_note_to_report" -> "note_added_to_report"
      [] name = "create_custom_pathway" -> "custom_pathway_created"
      [] OTHER -> ""
\* the call of this step returned the success message of a tool that saves
SucceededStep ==
    /\ Len(function_responses') = Len(function_responses) + 1
    /\ ActivityOf(function_responses'[Len(function_responses')].name) # ""
    /\ SubSeq(function_responses'[Len(function_responses')].response.result, 1, 3)
           = "Da "

\* C26: across tool calls the activity log only grows at its end: every
\* call leaves the entries there were, in their order; a call of
\* assign_exercise, grade_submission, add_note_to_report or
\* create_custom_pathway that returns its success message adds exactly one
\* entry, last, with the activity of that tool and the time of the call; any
\* other call (one that only reads, one that returns a domain error, one that
\* raises, one of an unknown function) adds none.
C26_ActivityLogAppendOnly ==
    [][pc = "tool" =>
          LET old == files.activity_logs
              new == files'.activity_logs
          IN  /\ Len(new) >= Len(old)
              /\ SubSeq(new, 1, Len(old)) = old
              /\ IF SucceededStep
                 THEN /\ Len(new) = Len(old) + 1
                      /\ new[Len(new)].activity
                             = ActivityOf(executed'[Len(executed')].name)
                      /\ new[Len(new)].timestamp = TimeStamp(clock')
                 ELSE new = old]_vars

\* C26 witness: two calls succeeded one after the other and the log holds
\* their two entries in the order of the calls.
C26_Witness ==
    /\ pc = "tool" /\ Len(executed) = 2 /\ Len(function_responses) = 2
    /\ executed[1].name = "grade_submission"
    /\ executed[2].name = "assign_exercise"
    /\ Len(files.activity_logs) = 2
    /\ files.activity_logs[1].activity = "submission_graded"
    /\ files.activity_logs[2].activity = "assignment_created"

\* the step is a call of get_student_activity_log for today that returned
TodayLogStep ==
    /\ pc = "tool"
    /\ Len(function_responses') = Len(function_responses) + 1
    /\ executed'[Len(executed')].name = "get_student_activity_log"
    /\ Get(executed'[Len(executed')].args, "date_range", Str("today")) = Str("today")

\* C27 (as claimed): date_range is a filter. Every entry of the activity log
\* carries the time of an earlier call; so a call for today, also by default,
\* that is made on a later day than every call before it finds no activity of
\* today and reports none.
C27_DateRangeFilters ==
    [][TodayLogStep /\ DayOf(clock') > DayOf(clock) =>
          ~Contains("activities", function_responses'[Len(function_responses')]
                                      .response.result)]_vars

\* a terminal entry: a completion entry, or the entry of the exception handler
Terminal(entry) == entry.step \in {"completion", "error"} \/ entry.status = "error"
LastEntry == result.logs[Len(result.logs)]

\* C28: the last entry of the trace of a returned result agrees with the
\* status. The status is success exactly when the last entry is
\* completion/success, and error exactly when the last entry has status
\* error, which is then completion/error (the fallback, no failure caught) or
\* error/error (a failure caught). That entry is the only completion or error
\* entry of the trace, and the trace returned is the whole trace recorded.
C28_LastEntryAgreesWithStatus ==
    pc = "done" =>
        /\ result.logs = logs /\ logs # <<>>
        /\ result.status \in {"success", "error"}
        /\ result.status = "success"
               <=> <<LastEntry.step, LastEntry.status>> = <<"completion", "success">>
        /\ result.status = "error" <=> LastEntry.status = "error"
        /\ result.status = "error" =>
               <<LastEntry.step, LastEntry.status>>
                   = (IF failure = NoFailure THEN <<"completion", "error">>
                      ELSE <<"error", "error">>)
        /\ \A n \in 1..Len(logs) : Terminal(logs[n]) <=> n = Len(logs)

\* C28 witness: a tool call raised in the second turn, after a first turn of
\* function calls was processed; the trace ends with the one error entry.
C28_Witness ==
    /\ pc = "done" /\ result.status = "error" /\ failure # NoFailure
    /\ received = 2 /\ DispatchFailed
    /\ LastEntry.step = "error"
    /\ Len(logs) > 6

\* the records in the files that a returned create_custom_pathway left
PathwaySaved ==
    /\ Len(files.pathways) > Len(InitFiles.pathways)
    /\ \E n \in 1..Len(files.activity_logs) :
           files.activity_logs[n].activity = "custom_pathway_created"
\* a call of the latest turn completed and saved a pathway
CompletedPathwayCall ==
    \E k \in 1..Len(function_responses) :
        /\ function_responses[k].name = "create_custom_pathway"
        /\ SubSeq(function_responses[k].response.result, 1, 3) = "Da "

\* C29: what the tools wrote stays when the invocation fails. The files
\* change only by the execution of a tool and are never put back: the step
\* that ends the invocation with a failure leaves them as the tools left
\* them. When a tool call raises, the calls before it in the turn have
\* completed, their records are in the files, the status is error, their
\* results were not sent to the model, and no call after the raising one was
\* executed. When the send of the results fails, all calls of the turn have
\* completed, their records are in the files, the status is error and the
\* model has not received the results.
C29_EffectsSurviveFailure ==
    /\ [][files' # files =>
             /\ pc = "dispatch" /\ idx <= Len(function_calls)
             /\ files' = execute_function_call(files, clock, function_calls[idx].name,
                                               Normalize(function_calls[idx].args)).files
             /\ Len(files'.pathways) >= Len(files.pathways)
             /\ Len(files'.activity_logs) >= Len(files.activity_logs)]_vars
    /\ [][pc = "dispatch" /\ pc' = "done" =>
             /\ result'.status = "error"
             /\ received' = received
             /\ idx > Len(function_calls) => files' = files
             /\ CompletedPathwayCall /\ PathwaySaved => PathwaySaved']_vars
    /\ [](DispatchFailed =>
             /\ result.status = "error"
             /\ Len(LatestExecuted) = Len(function_responses) + 1
             /\ Len(sent) = received
             /\ CompletedPathwayCall => PathwaySaved)
    /\ [](pc = "done" /\ SendFailed /\ executed # <<>> =>
             /\ result.status = "error"
             /\ Len(LatestExecuted) = Len(function_responses)
             /\ CompletedPathwayCall => PathwaySaved)

\* C29 witness: create_custom_pathway saved a pathway, the next call of the
\* same turn raised, and the invocation returned with status error and the
\* pathway in the files.
C29_Witness ==
    /\ DispatchFailed /\ result.status = "error"
    /\ CompletedPathwayCall /\ PathwaySaved
    /\ Len(function_responses) = 1 /\ Len(LatestCalls) = 2
    /\ received = 1

\* the JSON text of list_available_submissions names the submission id
Lists(r, id) == Contains("\"id\": \"" \o id \o "\"", r)
LastResult == function_responses[Len(function_responses)].response.result

\* C30: grading is one-way. No tool call removes a submission, changes its
\* id or takes it out of the status graded; a grade_submission call that
\* returns its success message leaves the submission it names graded; and
\* list_available_submissions names exactly the submissions whose status is
\* submitted, so a submission once graded is never listed again.
C30_GradingIsOneWay ==
    /\ [][pc = "tool" =>
             /\ Len(files'.submissions) = Len(files.submissions)
             /\ \A i \in 1..Len(files.submissions) :
                    /\ files'.submissions[i].id = files.submissions[i].id
                    /\ files.submissions[i].status = "graded"
                           => files'.submissions[i].status = "graded"
             /\ MakesCall("grade_submission") /\ SucceededStep =>
                    \E i \in 1..Len(files'.submissions) :
                        /\ files'.submissions[i].id
                               = executed'[Len(executed')].args["submission_id"].val
                        /\ files'.submissions[i].status = "graded"]_vars
    /\ [](/\ pc = "tool" /\ executed # <<>>
          /\ Len(function_responses) = Len(executed)
          /\ executed[Len(executed)].name = "list_available_submissions"
          => \A i \in 1..Len(files.submissions) :
                 Lists(LastResult, files.submissions[i].id)
                     <=> files.submissions[i].status = "submitted")

\* C30 witness: of two submissions one was graded, and the list made after
\* that names the other one only.
C30_Witness ==
    /\ pc = "tool" /\ Len(executed) = 2 /\ Len(function_responses) = 2
    /\ executed[1].name = "grade_submission"
    /\ executed[2].name = "list_available_submissions"
    /\ Len(files.submissions) = 2
    /\ files.submissions[1].status = "graded"
    /\ files.submissions[2].status = "submitted"
    /\ ~Lists(LastResult, "sub_001") /\ Lists(LastResult, "sub_002")

\* no two records of the sequence have the same id
UniqueIds(records) ==
    \A i, j \in 1..Len(records) : records[i].id = records[j].id => i = j

\* C31 (as claimed): record ids are unique. Whatever calls were made, and
\* however close in time, no two records of the assignments file have the
\* same id and no two records of the pathways file have the same id.
C31_RecordIdsUnique ==
    pc = "tool" => UniqueIds(files.assignments) /\ UniqueIds(files.pathways)

\* the step calls a tool that only reads, or a name that is no tool
ReadOnlyStep ==
    /\ pc = "tool"
    /\ Len(executed') = Len(executed) + 1
    /\ \/ CallMade.name \in {"get_student_activity_log", "list_available_submissions"}
       \/ CallMade.name \notin RegisteredTools

\* C32: get_student_activity_log, list_available_submissions and the call
\* of a name that is no tool leave every file as it was, whatever the
\* arguments are, whatever the files hold, and whether the call returns or
\* raises.
C32_ReadOnlyCallsWriteNothing ==
    [][ReadOnlyStep => files' = files]_vars

\* C32 witness: after a note was added for An, the activity log of An was
\* read; the call returned the activities and the files hold the one note
\* and its one log entry.
C32_Witness ==
    /\ pc = "tool" /\ Len(executed) = 2 /\ Len(function_responses) = 2
    /\ executed[1].name = "add_note_to_report"
    /\ executed[2].name = "get_student_activity_log"
    /\ Contains("activities", function_responses[2].response.result)
    /\ Len(files.activity_logs) = 1 /\ Len(files.reports) = 1

====
